---------------------------- MODULE Spec2Model ----------------------------
(***************************************************************************)
(* Hybrid retrieval engine of the podcast search system: the FAISS index   *)
(* and chunk map kept by app/index.py, the embeddings sidecar written by   *)
(* app/embed.py, the chunks table of app/database.py, the provenance       *)
(* lookup of app/rank.py and the ingestion commands of app/cli.py.         *)
(*                                                                         *)
(* Python positions are 0-based; a TLA+ sequence is 1-based, so            *)
(* chunk_ids[i] of the source is chunk_ids[i + 1] here.  Vectors are       *)
(* tuples of integers, one unit being 1/VecScale; a squared L2 distance    *)
(* and a similarity are integers in units of 1/(VecScale * VecScale).      *)
(*                                                                         *)
(* _index and _chunk_map are the module globals of one process (the API    *)
(* server, a test, a library user).  The CLI commands run in a process of  *)
(* their own, whose globals die with it: what they leave behind is the     *)
(* database and the two files.                                             *)
(*                                                                         *)
(* The storage collaborator db is taken to be the session-based Database   *)
(* of app/database.py: index.py and rank.py query it through SessionLocal  *)
(* and ChunkModel of that module.                                          *)
(***************************************************************************)
EXTENDS Integers, Sequences, FiniteSets, TLC

VARIABLES
    episodes,     \* episodes table: id -> [guid, title, description, transcript]
    chunks,       \* chunks table: id -> [episode_id, idx, text, start, end]
    next_id,      \* next id the chunks table hands out
    faiss_file,   \* FAISS_PATH: NoFile, Corrupt or [vecs, ...], see WrittenIndex
    emb_file,     \* EMBEDDINGS_PATH: NoFile or [embeddings, chunk_ids]
    _index,       \* index.py global _index: None or [vecs, via]
    _chunk_map,   \* index.py global _chunk_map: position -> <<episode_id, start, end>>
    ret,          \* what the last call returned or raised
    hist,         \* history: [paired, fresh], see below
    task          \* the build or load under way in the server process, or Idle

vars == <<episodes, chunks, next_id, faiss_file, emb_file, _index, _chunk_map,
          ret, hist, task>>

\* hist.paired: the index file on disk was written by a build over the
\*   embeddings and the id list the sidecar on disk holds, in the run that
\*   wrote (or, for index.rebuild_index, read) that sidecar.
\* hist.fresh: the chunks table has not changed since the index file was
\*   last written.

----------------------------------------------------------------------------
(* Bounds of the model *)

MaxN == 2          \* longest embeddings array / id list passed to build directly
MaxId == 3         \* ids the chunks table hands out
MaxTopK == 3       \* largest top_k asked of semantic_search
VecScale == 4      \* a coordinate unit is 1/VecScale
MaxTextLen == 5    \* longest text handed to to_chunks, but for the scenarios
MaxChunkSize == 4  \* largest chunk_size and overlap handed to to_chunks, but for the scenarios

None == [none |-> TRUE]         \* Python None
NoFile == [file |-> "absent"]   \* path.exists() is false
Idle == [pc |-> "idle"]         \* no build or load is under way
Corrupt == [file |-> "corrupt"] \* the file exists and cannot be read
NaN == 0 - 1                    \* a coordinate that is NaN or +-Inf

One == VecScale * VecScale      \* 1.0 in distance / similarity units

Max(a, b) == IF a >= b THEN a ELSE b
Min(a, b) == IF a <= b THEN a ELSE b

Range(s) == {s[i] : i \in DOMAIN s}

----------------------------------------------------------------------------
(* Inputs *)

Vec(x) == <<x>>        \* a finite vector of dimension 1
NaNVec == <<NaN>>      \* a vector holding a NaN

\* embeddings arrays passed to build directly: for each length the array
\* of pairwise distinct rows, and the same array with its last row
\* replaced by a NaN row.
GoodEmb(n) == [i \in 1..n |-> Vec(VecScale * i)]
BadEmb(n) == [i \in 1..n |-> IF i = n THEN NaNVec ELSE Vec(VecScale * i)]
EmbInputs == {GoodEmb(n) : n \in 0..MaxN} \cup {BadEmb(n) : n \in 1..MaxN}

\* The episodes of the feed, by guid.  A text is a sequence of characters.
\* Episode 1 has a transcript, episode 2 only a description, episode 3
\* only a title; episode 4 has the title of episode 1 and its transcript in
\* capitals.
EpisodeRow(guid) ==
    [guid |-> guid,
     title |-> IF guid = 2 THEN <<"B">>
               ELSE IF guid = 3 THEN <<"A", "b">> ELSE <<"A">>,
     description |-> IF guid = 2 THEN <<"b", "a">> ELSE <<>>,
     transcript |-> IF guid = 1 THEN <<"a", "b">>
                    ELSE IF guid = 4 THEN <<"A", "B">> ELSE <<>>]

\* chunk lists handed to add_chunks: (idx, text, start, end) per chunk.
\* A text is a small number standing for the string.
Episodes == {1, 2}
ChunkLists ==
    { <<[idx |-> 0, text |-> 1, start |-> 0, end |-> 3]>>,
      <<[idx |-> 0, text |-> 2, start |-> 0, end |-> 2],
        [idx |-> 1, text |-> 3, start |-> 1, end |-> 3]>> }

\* The embedding collaborator: one vector per text, the same for the same
\* text, different for different texts.
embed_text(text) == Vec(VecScale * text)

----------------------------------------------------------------------------
(* app/database.py *)

\* Database.add_chunks: delete the episode's rows, insert the new ones
\* under fresh ids, in one transaction.
\* table is the chunks table before, first_id the first id it hands out.
ChunksAfterAdd(table, first_id, episode_id, new_chunks) ==
    LET kept == {id \in DOMAIN table : table[id].episode_id # episode_id}
        fresh == first_id .. (first_id + Len(new_chunks) - 1)
    IN  [id \in kept \cup fresh |->
            IF id \in kept THEN table[id]
            ELSE [episode_id |-> episode_id,
                  idx |-> new_chunks[id - first_id + 1].idx,
                  text |-> new_chunks[id - first_id + 1].text,
                  start |-> new_chunks[id - first_id + 1].start,
                  end |-> new_chunks[id - first_id + 1].end]]

add_chunks(episode_id, new_chunks) ==
    /\ episode_id \in DOMAIN episodes
    /\ next_id + Len(new_chunks) - 1 <= MaxId
    /\ chunks' = ChunksAfterAdd(chunks, next_id, episode_id, new_chunks)
    /\ next_id' = next_id + Len(new_chunks)
    /\ ret' = [op |-> "add_chunks"]
    /\ hist' = [hist EXCEPT !.fresh = FALSE]
    /\ UNCHANGED <<task, episodes, faiss_file, emb_file, _index, _chunk_map>>

\* Database.upsert_episode over the episodes table given: the row of the
\* guid is updated in place, a new guid gets the next id.
EpisodesAfterUpsert(episode_table, guid) ==
    IF \E id \in DOMAIN episode_table : episode_table[id].guid = guid
    THEN episode_table
    ELSE [id \in DOMAIN episode_table \cup {Cardinality(DOMAIN episode_table) + 1} |->
            IF id \in DOMAIN episode_table THEN episode_table[id]
            ELSE EpisodeRow(guid)]

\* The id upsert_episode returns for a guid the table holds.
EpisodeIdOf(episode_table, guid) ==
    CHOOSE id \in DOMAIN episode_table : episode_table[id].guid = guid

\* ORDER BY episode_id, idx: at most MaxId rows per episode, so idx <= MaxId.
ChunkOrderKey(table, id) == table[id].episode_id * (MaxId + 1) + table[id].idx

RECURSIVE OrderedIds(_, _)
OrderedIds(table, S) ==
    IF S = {} THEN <<>>
    ELSE LET least == CHOOSE x \in S :
                        \A y \in S : x = y
                                     \/ ChunkOrderKey(table, x) < ChunkOrderKey(table, y)
                                     \/ (ChunkOrderKey(table, x) = ChunkOrderKey(table, y) /\ x < y)
         IN  <<least>> \o OrderedIds(table, S \ {least})

\* Database.get_all_chunks over the chunks table and the episodes table
\* given: the chunks joined with their episodes, ORDER BY episode_id, idx;
\* here the ids of that enumeration.
AllChunkIds(table, episode_table) ==
    OrderedIds(table, {id \in DOMAIN table : table[id].episode_id \in DOMAIN episode_table})

get_all_chunks == AllChunkIds(chunks, episodes)

\* The rows of the ids listed.
Rows(table, ids) == [i \in 1..Len(ids) |-> table[ids[i]]]

\* The (episode_id, start, end) the callers take from a chunks row.
Provenance(row) == <<row.episode_id, row.start, row.end>>

----------------------------------------------------------------------------
(* app/embed.py *)

HasNaNOrInf(embeddings) ==
    \E i \in DOMAIN embeddings : \E j \in DOMAIN embeddings[i] : embeddings[i][j] = NaN

validate_embeddings(embeddings, chunk_ids) ==
    /\ Len(embeddings) = Len(chunk_ids)
    /\ Len(embeddings) # 0
    /\ ~HasNaNOrInf(embeddings)

\* embed_chunks: one row per chunk, in the order of the list.
embed_chunks(chunk_list) ==
    [i \in 1..Len(chunk_list) |-> embed_text(chunk_list[i].text)]

\* What save_embeddings pickles to EMBEDDINGS_PATH.
SavedEmbeddings(embeddings, chunk_ids) ==
    [embeddings |-> embeddings, chunk_ids |-> chunk_ids]

clear_embeddings ==
    /\ emb_file # NoFile
    /\ emb_file' = NoFile
    /\ ret' = [op |-> "clear_embeddings"]
    /\ UNCHANGED <<task, episodes, chunks, next_id, faiss_file, _index, _chunk_map, hist>>

----------------------------------------------------------------------------
(* app/index.py *)

\* A loop body that appends: the provenance goes to the next free position
\* of the map, whatever the position of the id in the list.
ChunkMapEntryAppended(table, m, idx, chunk_id) ==
    IF chunk_id \in DOMAIN table
    THEN [p \in DOMAIN m \cup {Cardinality(DOMAIN m)} |->
            IF p = Cardinality(DOMAIN m) THEN Provenance(table[chunk_id]) ELSE m[p]]
    ELSE m

\* One iteration of the loop of _build_chunk_map: position idx gets the
\* provenance of chunk_id when the chunks table holds it, and is left out
\* otherwise.  table is the chunks table the session reads.
ChunkMapEntry(table, m, idx, chunk_id) ==
    IF chunk_id \in DOMAIN table
    THEN [p \in DOMAIN m \cup {idx} |->
            IF p = idx THEN Provenance(table[chunk_id]) ELSE m[p]]
    ELSE m

EmptyMap == [p \in {} |-> <<>>]

\* The map _build_chunk_map leaves: clear(), then the loop over
\* enumerate(chunk_ids).
RECURSIVE ChunkMapLoop(_, _, _, _)
ChunkMapLoop(table, m, idx, chunk_ids) ==
    IF idx >= Len(chunk_ids) THEN m
    ELSE ChunkMapLoop(table, ChunkMapEntry(table, m, idx, chunk_ids[idx + 1]),
                      idx + 1, chunk_ids)

BuiltChunkMap(table, chunk_ids) == ChunkMapLoop(table, EmptyMap, 0, chunk_ids)

_build_chunk_map(chunk_ids) == BuiltChunkMap(chunks, chunk_ids)

\* The file faiss.write_index leaves for the index over embeddings.  The
\* history fields record the build that wrote it: its id list and the
\* chunk map it produced.
WrittenIndex(table, embeddings, chunk_ids) ==
    [vecs |-> embeddings, chunk_ids |-> chunk_ids,
     map |-> BuiltChunkMap(table, chunk_ids)]

\* The index object; via is a history field: "add" for the IndexFlatL2
\* that build filled, "read" for the one faiss.read_index returned.
IndexOf(vecs, via) == [vecs |-> vecs, via |-> via]

\* A build that writes and installs first and validates afterwards.
build_faiss_index_validating_last(embeddings, chunk_ids) ==
    /\ faiss_file' = WrittenIndex(chunks, embeddings, chunk_ids)
    /\ _chunk_map' = _build_chunk_map(chunk_ids)
    /\ _index' = IndexOf(embeddings, "add")
    /\ ret' = [op |-> "build", raised |-> ~validate_embeddings(embeddings, chunk_ids)]
    /\ hist' = [paired |-> FALSE, fresh |-> TRUE]
    /\ UNCHANGED <<task, episodes, chunks, next_id, emb_file>>

\* build_faiss_index called in this process, as the tests call it.
build_faiss_index(embeddings, chunk_ids) ==
    IF ~validate_embeddings(embeddings, chunk_ids)
    THEN /\ ret' = [op |-> "build", raised |-> TRUE]
         /\ UNCHANGED <<task, episodes, chunks, next_id, faiss_file, emb_file,
                        _index, _chunk_map, hist>>
    ELSE /\ faiss_file' = WrittenIndex(chunks, embeddings, chunk_ids)
         /\ _chunk_map' = _build_chunk_map(chunk_ids)
         /\ _index' = IndexOf(embeddings, "add")
         /\ ret' = [op |-> "build", raised |-> FALSE]
         /\ hist' = [paired |-> FALSE, fresh |-> TRUE]
         /\ UNCHANGED <<task, episodes, chunks, next_id, emb_file>>

\* A load that reads the index and leaves the chunk map as it finds it.
load_faiss_index_keeping_map ==
    IF faiss_file = NoFile \/ faiss_file = Corrupt
    THEN /\ ret' = [op |-> "load", value |-> FALSE]
         /\ UNCHANGED <<task, episodes, chunks, next_id, faiss_file, emb_file,
                        _index, _chunk_map, hist>>
    ELSE /\ _index' = IndexOf(faiss_file.vecs, "read")
         /\ ret' = [op |-> "load", value |-> TRUE, cold |-> (_index = None)]
         /\ UNCHANGED <<task, episodes, chunks, next_id, faiss_file, emb_file,
                        _chunk_map, hist>>

load_faiss_index ==
    IF faiss_file = NoFile \/ faiss_file = Corrupt
    THEN /\ ret' = [op |-> "load", value |-> FALSE]
         /\ UNCHANGED <<task, episodes, chunks, next_id, faiss_file, emb_file,
                        _index, _chunk_map, hist>>
    ELSE /\ _index' = IndexOf(faiss_file.vecs, "read")
         /\ _chunk_map' =
                IF emb_file # NoFile /\ emb_file.chunk_ids # <<>>
                THEN _build_chunk_map(emb_file.chunk_ids)
                ELSE _chunk_map
         /\ ret' = [op |-> "load", value |-> TRUE, cold |-> (_index = None)]
         /\ UNCHANGED <<task, episodes, chunks, next_id, faiss_file, emb_file, hist>>

is_index_loaded == _index # None /\ Cardinality(DOMAIN _chunk_map) > 0

get_chunk_metadata(chunk_idx) ==
    IF chunk_idx \in DOMAIN _chunk_map THEN _chunk_map[chunk_idx] ELSE None

clear_index ==
    /\ _index' = None
    /\ _chunk_map' = EmptyMap
    /\ ret' = [op |-> "clear_index"]
    /\ UNCHANGED <<task, episodes, chunks, next_id, faiss_file, emb_file, hist>>

delete_index_file ==
    /\ faiss_file # NoFile
    /\ faiss_file' = NoFile
    /\ ret' = [op |-> "delete_index_file"]
    /\ UNCHANGED <<task, episodes, chunks, next_id, emb_file, _index, _chunk_map, hist>>

\* The environment damages the index file (a torn write, a bad disk): the
\* case the except branch of load_faiss_index is there for.
corrupt_index_file ==
    /\ faiss_file # NoFile /\ faiss_file # Corrupt
    /\ faiss_file' = Corrupt
    /\ ret' = [op |-> "corrupt_index_file"]
    /\ UNCHANGED <<task, episodes, chunks, next_id, emb_file, _index, _chunk_map, hist>>

\* index.rebuild_index, in this process: build from the stored sidecar;
\* every exception of the build becomes the return value False.
rebuild_index ==
    IF emb_file = NoFile
    THEN /\ ret' = [op |-> "rebuild_index", value |-> FALSE]
         /\ UNCHANGED <<task, episodes, chunks, next_id, faiss_file, emb_file,
                        _index, _chunk_map, hist>>
    ELSE IF ~validate_embeddings(emb_file.embeddings, emb_file.chunk_ids)
    THEN /\ ret' = [op |-> "rebuild_index", value |-> FALSE]
         /\ UNCHANGED <<task, episodes, chunks, next_id, faiss_file, emb_file,
                        _index, _chunk_map, hist>>
    ELSE /\ faiss_file' = WrittenIndex(chunks, emb_file.embeddings, emb_file.chunk_ids)
         /\ _chunk_map' = _build_chunk_map(emb_file.chunk_ids)
         /\ _index' = IndexOf(emb_file.embeddings, "add")
         /\ ret' = [op |-> "rebuild_index", value |-> TRUE]
         /\ hist' = [paired |-> TRUE, fresh |-> TRUE]
         /\ UNCHANGED <<task, episodes, chunks, next_id, emb_file>>

\* Squared L2 distance, the distance IndexFlatL2 reports.
RECURSIVE SumSq(_, _, _)
SumSq(u, v, j) ==
    IF j > Len(u) THEN 0
    ELSE (u[j] - v[j]) * (u[j] - v[j]) + SumSq(u, v, j + 1)

L2sq(u, v) == SumSq(u, v, 1)

\* The distance faiss reports next to the label -1: the largest float.
FltMax == One * One * One

\* Orders in which a flat index may report its vectors for query q: every
\* position once, farthest first.
FarthestFirst(vecs, q) ==
    {o \in [1..Len(vecs) -> 0..(Len(vecs) - 1)] :
        /\ \A i, j \in 1..Len(vecs) : i # j => o[i] # o[j]
        /\ \A i, j \in 1..Len(vecs) :
              i < j => L2sq(q, vecs[o[i] + 1]) >= L2sq(q, vecs[o[j] + 1])}

\* Orders in which a flat index may report its vectors for query q: every
\* position once, by distance; the order among equal distances is the
\* library's.
NearestFirst(vecs, q) ==
    {o \in [1..Len(vecs) -> 0..(Len(vecs) - 1)] :
        /\ \A i, j \in 1..Len(vecs) : i # j => o[i] # o[j]
        /\ \A i, j \in 1..Len(vecs) :
              i < j => L2sq(q, vecs[o[i] + 1]) <= L2sq(q, vecs[o[j] + 1])}

\* _index.search(q, k) along order o: k slots, the slots past the last
\* vector filled with the label -1.
IndexSearch(vecs, q, k, o) ==
    [i \in 1..k |->
        IF i <= Len(vecs)
        THEN [label |-> o[i], distance |-> L2sq(q, vecs[o[i] + 1])]
        ELSE [label |-> 0 - 1, distance |-> FltMax]]

\* A result loop that keeps every slot.
ResultsUnfiltered(found) ==
    [i \in 1..Len(found) |->
        <<found[i].label, Max(0, One - found[i].distance)>>]

\* The result loop of semantic_search: the slots with a label other than
\* -1, as (chunk_idx, similarity).
Results(found) ==
    LET valid == SelectSeq(found, LAMBDA h : h.label # 0 - 1)
    IN  [i \in 1..Len(valid) |->
            <<valid[i].label, Max(0, One - valid[i].distance)>>]

\* A search that answers only when is_index_loaded.
semantic_search_if_loaded(query_embedding, top_k) ==
    /\ IF ~is_index_loaded
       THEN ret' = [op |-> "semantic_search", q |-> query_embedding,
                    k |-> top_k, value |-> <<>>]
       ELSE \E o \in NearestFirst(_index.vecs, query_embedding) :
                ret' = [op |-> "semantic_search", q |-> query_embedding,
                        k |-> top_k,
                        value |-> Results(IndexSearch(_index.vecs,
                                             query_embedding, top_k, o))]
    /\ UNCHANGED <<task, episodes, chunks, next_id, faiss_file, emb_file,
                   _index, _chunk_map, hist>>

\* semantic_search; top_k >= 1, the faiss wrapper asserts it.
semantic_search(query_embedding, top_k) ==
    /\ IF _index = None
       THEN ret' = [op |-> "semantic_search", q |-> query_embedding,
                    k |-> top_k, value |-> <<>>]
       ELSE \E o \in NearestFirst(_index.vecs, query_embedding) :
                ret' = [op |-> "semantic_search", q |-> query_embedding,
                        k |-> top_k,
                        value |-> Results(IndexSearch(_index.vecs,
                                             query_embedding, top_k, o))]
    /\ UNCHANGED <<task, episodes, chunks, next_id, faiss_file, emb_file,
                   _index, _chunk_map, hist>>

\* get_index_stats, called by a reader while a build or load may be
\* under way.
IndexStats(index, chunk_map) ==
    IF index = None
    THEN [vectors |-> 0, dimension |-> 0]
    ELSE [vectors |-> Len(index.vecs), dimension |-> Len(index.vecs[1]),
          chunks_mapped |-> Cardinality(DOMAIN chunk_map)]

get_index_stats ==
    /\ ret' = [op |-> "get_index_stats", value |-> IndexStats(_index, _chunk_map)]
    /\ UNCHANGED <<task, episodes, chunks, next_id, faiss_file, emb_file,
                   _index, _chunk_map, hist>>

----------------------------------------------------------------------------
(* app/index.py, statement by statement: build_faiss_index and           *)
(* load_faiss_index take no lock, so a reader in another thread runs     *)
(* between any two of their statements.  task.before is a history field: *)
(* the index and the chunk map as the call found them.                   *)

Published == [index |-> _index, map |-> _chunk_map]

\* build_faiss_index up to the validation.
build_begin(embeddings, chunk_ids) ==
    /\ task = Idle
    /\ IF ~validate_embeddings(embeddings, chunk_ids)
       THEN /\ ret' = [op |-> "build", raised |-> TRUE]
            /\ UNCHANGED task
       ELSE /\ task' = [pc |-> "write_index", op |-> "build",
                        embeddings |-> embeddings, chunk_ids |-> chunk_ids,
                        idx |-> 0, before |-> Published]
            /\ UNCHANGED ret
    /\ UNCHANGED <<episodes, chunks, next_id, faiss_file, emb_file,
                   _index, _chunk_map, hist>>

\* index = IndexFlatL2(dimension); index.add(...); faiss.write_index(...)
build_write_index ==
    /\ task.pc = "write_index"
    /\ faiss_file' = WrittenIndex(chunks, task.embeddings, task.chunk_ids)
    /\ hist' = [paired |-> FALSE, fresh |-> TRUE]
    /\ task' = [task EXCEPT !.pc = "clear"]
    /\ UNCHANGED <<episodes, chunks, next_id, emb_file, _index, _chunk_map, ret>>

\* _chunk_map.clear() of _build_chunk_map.
chunk_map_clear ==
    /\ task.pc = "clear"
    /\ _chunk_map' = EmptyMap
    /\ task' = [task EXCEPT !.pc = "fill"]
    /\ UNCHANGED <<episodes, chunks, next_id, faiss_file, emb_file, _index,
                   ret, hist>>

\* One iteration of the loop of _build_chunk_map, or its end.
chunk_map_fill ==
    /\ task.pc = "fill"
    /\ IF task.idx < Len(task.chunk_ids)
       THEN /\ _chunk_map' = ChunkMapEntry(chunks, _chunk_map, task.idx,
                                           task.chunk_ids[task.idx + 1])
            /\ task' = [task EXCEPT !.idx = task.idx + 1]
       ELSE /\ task' = [task EXCEPT !.pc = IF task.op = "build"
                                           THEN "publish" ELSE "return"]
            /\ UNCHANGED _chunk_map
    /\ UNCHANGED <<episodes, chunks, next_id, faiss_file, emb_file, _index,
                   ret, hist>>

\* _index = index, the last statement of build_faiss_index.
build_publish ==
    /\ task.pc = "publish"
    /\ _index' = IndexOf(task.embeddings, "add")
    /\ ret' = [op |-> "build", raised |-> FALSE]
    /\ task' = Idle
    /\ UNCHANGED <<episodes, chunks, next_id, faiss_file, emb_file,
                   _chunk_map, hist>>

\* load_faiss_index up to the decision to rebuild the chunk map:
\* the existence check, _index = faiss.read_index(...), load_embeddings().
load_begin ==
    /\ task = Idle
    /\ IF faiss_file = NoFile \/ faiss_file = Corrupt
       THEN /\ ret' = [op |-> "load", value |-> FALSE]
            /\ UNCHANGED <<task, _index>>
       ELSE /\ _index' = IndexOf(faiss_file.vecs, "read")
            /\ IF emb_file # NoFile /\ emb_file.chunk_ids # <<>>
               THEN /\ task' = [pc |-> "clear", op |-> "load",
                                embeddings |-> faiss_file.vecs,
                                chunk_ids |-> emb_file.chunk_ids,
                                idx |-> 0, before |-> Published]
                    /\ UNCHANGED ret
               ELSE /\ ret' = [op |-> "load", value |-> TRUE,
                               cold |-> (_index = None)]
                    /\ UNCHANGED task
    /\ UNCHANGED <<episodes, chunks, next_id, faiss_file, emb_file,
                   _chunk_map, hist>>

\* return True of load_faiss_index.
load_return ==
    /\ task.pc = "return"
    /\ ret' = [op |-> "load", value |-> TRUE, cold |-> (task.before.index = None)]
    /\ task' = Idle
    /\ UNCHANGED <<episodes, chunks, next_id, faiss_file, emb_file,
                   _index, _chunk_map, hist>>

----------------------------------------------------------------------------
(* app/chunk.py *)

\* A text is a sequence of characters.  The chunker tells three kinds of
\* character apart: the space, which str.rfind(' ') looks for and
\* str.strip() removes; other whitespace, which only str.strip() removes;
\* and everything else.  Python positions are 0-based, so text[p] of the
\* code is text[p + 1] here and the slice text[a:b] is SubSeq(text, a + 1, b).

Space == " "
Newline == "\n"
Letter == "a"
Chars == {Space, Newline, Letter}
Whitespace == {Space, Newline}

RECURSIVE lstrip(_)
lstrip(text) ==
    IF text # <<>> /\ Head(text) \in Whitespace THEN lstrip(Tail(text))
    ELSE text

rstrip_nothing(text) == text
RECURSIVE rstrip(_)
rstrip(text) ==
    IF text # <<>> /\ text[Len(text)] \in Whitespace
    THEN rstrip(SubSeq(text, 1, Len(text) - 1))
    ELSE text

strip_left_only(text) == lstrip(text)
strip(text) == rstrip(lstrip(text))

Slice(text, start, end) == SubSeq(text, start + 1, end)

\* text.rfind(' ', start, end): the last position of a space in
\* text[start:end], -1 when there is none.
rfind(text, start, end) ==
    LET found == {p \in start..(end - 1) : text[p + 1] = Space}
    IN  IF found = {} THEN 0 - 1
        ELSE CHOOSE p \in found : \A q \in found : q <= p

\* last_space > start + chunk_size * 0.7, in tenths.  The code compares
\* in double precision; the two agree for every chunk_size that is not a
\* multiple of ten (the threshold is then at least 0.1 away from any
\* position) and for the multiples of ten used here, 10 and 100, whose
\* products 7.0 and 70.0 are exact.
BreakNum == 7
BreakDen == 10
KeepsWindow(last_space, start, chunk_size) ==
    BreakDen * last_space > BreakDen * start + BreakNum * chunk_size

\* Lines 34-41: the end of the window that starts at `start`.
WindowEnd(text, start, chunk_size) ==
    LET end == Min(start + chunk_size, Len(text))
        last_space == rfind(text, start, end)
    IN  IF end < Len(text) /\ KeepsWindow(last_space, start, chunk_size)
        THEN last_space
        ELSE end

\* Line 56.
NextStartNoProgress(start, end, overlap) == end - overlap
NextStartAtEnd(start, end, overlap) == Max(start + 1, end)
NextStart(start, end, overlap) == Max(start + 1, end - overlap)

\* Lines 46-53: the chunk index after a window.
NextChunkIdxCountingWindows(chunk_idx, chunk_text) == chunk_idx + 1
NextChunkIdx(chunk_idx, chunk_text) ==
    IF chunk_text # <<>> THEN chunk_idx + 1 ELSE chunk_idx

\* One pass of the loop of lines 32-60 on its variables v = [start,
\* chunk_idx, chunks]; they stay as they are once start >= len(text).
ToChunksPass(text, v, chunk_size, overlap) ==
    IF v.start >= Len(text) THEN v
    ELSE LET end == WindowEnd(text, v.start, chunk_size)
             chunk_text == strip(Slice(text, v.start, end))
         IN  [start |-> NextStart(v.start, end, overlap),
              chunk_idx |-> NextChunkIdx(v.chunk_idx, chunk_text),
              chunks |-> IF chunk_text # <<>>
                         THEN Append(v.chunks,
                                     [idx |-> v.chunk_idx, text |-> chunk_text,
                                      start |-> v.start, end |-> end])
                         ELSE v.chunks]

\* The loop's variables after n passes, or at its exit if that comes
\* before: the passes of the first half, then those of the second.
RECURSIVE ToChunksLoop(_, _, _, _, _)
ToChunksLoop(text, v, n, chunk_size, overlap) ==
    IF n = 0 THEN v
    ELSE IF n = 1 THEN ToChunksPass(text, v, chunk_size, overlap)
    ELSE LET half == ToChunksLoop(text, v, n \div 2, chunk_size, overlap)
         IN  IF half.start >= Len(text) THEN half
             ELSE ToChunksLoop(text, half, n - (n \div 2), chunk_size, overlap)

\* to_chunks as one call.  start grows by at least one in every pass, so
\* the loop is over after len(text) passes at the latest.
to_chunks(text, chunk_size, overlap) ==
    IF strip(text) = <<>> THEN <<>>
    ELSE IF Len(strip(text)) <= chunk_size
    THEN <<[idx |-> 0, text |-> strip(text), start |-> 0,
            end |-> Len(strip(text))]>>
    ELSE ToChunksLoop(strip(text),
                      [start |-> 0, chunk_idx |-> 0, chunks |-> <<>>],
                      Len(strip(text)), chunk_size, overlap).chunks

\* config.py: the chunking parameters, unless the environment sets others.
CHUNK_SIZE == 1200
CHUNK_OVERLAP == 200

TitleLabel == <<"T", "i", "t", "l", "e", ":", " ">>
DescriptionLabel ==
    <<"D", "e", "s", "c", "r", "i", "p", "t", "i", "o", "n", ":", " ">>
TranscriptLabel ==
    <<"T", "r", "a", "n", "s", "c", "r", "i", "p", "t", ":", " ">>

\* "\n\n".join(content_parts)
RECURSIVE Join(_)
Join(content_parts) ==
    IF content_parts = <<>> THEN <<>>
    ELSE IF Len(content_parts) = 1 THEN content_parts[1]
    ELSE content_parts[1] \o <<Newline, Newline>> \o Join(Tail(content_parts))

FullContentWithoutLabels(title, description, transcript) ==
    Join((IF title # <<>> THEN <<title>> ELSE <<>>)
           \o (IF description # <<>> THEN <<description>> ELSE <<>>)
           \o (IF transcript # <<>> THEN <<transcript>> ELSE <<>>))
FullContent(title, description, transcript) ==
    Join((IF title # <<>> THEN <<TitleLabel \o title>> ELSE <<>>)
           \o (IF description # <<>> THEN <<DescriptionLabel \o description>>
               ELSE <<>>)
           \o (IF transcript # <<>> THEN <<TranscriptLabel \o transcript>>
               ELSE <<>>))

chunk_episode_content(episode_id, title, description, transcript) ==
    IF title = <<>> /\ description = <<>> /\ transcript = <<>> THEN <<>>
    ELSE LET raw_chunks == to_chunks(FullContent(title, description, transcript),
                                     CHUNK_SIZE, CHUNK_OVERLAP)
         IN  [i \in 1..Len(raw_chunks) |->
                 [episode_id |-> episode_id, idx |-> raw_chunks[i].idx,
                  text |-> raw_chunks[i].text, start |-> raw_chunks[i].start,
                  end |-> raw_chunks[i].end]]

----------------------------------------------------------------------------
(* Floating point *)

\* Scores are Python floats (IEEE 754 binary64): every operation returns
\* the exact result rounded to the nearest representable number, ties to
\* the even significand.  The model keeps that rule with Precision
\* significand bits instead of 53 and a smallest quantum of 1/FloatUnit;
\* a float is held as the whole number of quanta it equals, so 1.0 is
\* FloatUnit.

Precision == 8
FloatUnit == 16384

\* n / d rounded to the nearest whole number, ties to the even one.
RoundQuot(n, d) ==
    LET low == n \div d
        twice == 2 * (n % d)
    IN  IF twice > d \/ (twice = d /\ low % 2 = 1) THEN low + 1 ELSE low

RECURSIVE Pow2(_)
Pow2(e) == IF e = 0 THEN 1 ELSE 2 * Pow2(e - 1)

\* The spacing of the floats around n / d quanta: the largest power of two
\* q (at least one quantum) with n / d >= q * SmallestFull, SmallestFull
\* being the smallest significand of full length, 2^(Precision - 1).
SmallestFull == Pow2(Precision - 1)
RECURSIVE QuantumFrom(_, _, _)
QuantumFrom(n, d, q) ==
    IF n >= 2 * q * SmallestFull * d THEN QuantumFrom(n, d, 2 * q)
    ELSE q
Quantum(n, d) == QuantumFrom(n, d, 1)

\* The float nearest to n / d quanta.
Fl(n, d) ==
    LET q == Quantum(n, d)
    IN  q * RoundQuot(n, d * q)

\* The float a decimal literal n/d denotes.
Float(n, d) == Fl(n * FloatUnit, d)

fmul(x, y) == Fl(x * y, FloatUnit)
fadd(x, y) == Fl(x + y, 1)
fsub(x, y) == Fl(x - y, 1)

----------------------------------------------------------------------------
(* app/rank.py *)

\* str.lower() on the letters the model's texts use.
Lower(c) ==
    IF c = "A" THEN "a" ELSE IF c = "B" THEN "b" ELSE IF c = "T" THEN "t"
    ELSE IF c = "D" THEN "d" ELSE c
lower_identity(text) == text
lower(text) == [i \in 1..Len(text) |-> Lower(text[i])]

\* The length of the longest common subsequence of a and b.
RECURSIVE LCS(_, _)
LCS(a, b) ==
    IF a = <<>> \/ b = <<>> THEN 0
    ELSE IF Head(a) = Head(b) THEN 1 + LCS(Tail(a), Tail(b))
    ELSE Max(LCS(Tail(a), b), LCS(a, Tail(b)))

\* fuzz.ratio: the normalised Indel similarity, 100 * 2 * LCS / (|a| + |b|).
ratio(a, b) == Fl(200 * LCS(a, b) * FloatUnit, Len(a) + Len(b))

\* fuzz.partial_ratio of two non-empty strings: the best ratio of the
\* shorter string against a window of the longer one, the windows being the
\* substrings as long as the shorter string and the shorter prefixes and
\* suffixes.
partial_ratio(s1, s2) ==
    LET needle == IF Len(s1) <= Len(s2) THEN s1 ELSE s2
        haystack == IF Len(s1) <= Len(s2) THEN s2 ELSE s1
        m == Len(needle)
        n == Len(haystack)
        scores == {ratio(needle, SubSeq(haystack, Max(1, i + 1), Min(n, i + m))) :
                      i \in (1 - m)..(n - 1)}
    IN  CHOOSE best \in scores : \A x \in scores : x <= best

lexical_score(query, text) ==
    IF query = <<>> \/ text = <<>> THEN 0
    ELSE Fl(partial_ratio(lower(query), lower(text)), 100)

\* config.py: TOP_K and HYBRID_ALPHA, unless the environment sets others.
TOP_K == 10
HYBRID_ALPHA == Float(7, 10)

hybrid_score_semantic_only(semantic_score, lexical_score_, alpha) ==
    semantic_score
hybrid_score_lexical_only(semantic_score, lexical_score_, alpha) ==
    lexical_score_
hybrid_score(semantic_score, lexical_score_, alpha) ==
    fadd(fmul(alpha, semantic_score),
         fmul(fsub(FloatUnit, alpha), lexical_score_))

\* Database.get_episode
get_episode(episode_id) ==
    IF episode_id \in DOMAIN episodes THEN episodes[episode_id] ELSE None

\* The chunk ids in ascending order: order_by(ChunkModel.id).
RECURSIVE ChunksById(_)
ChunksById(S) ==
    IF S = {} THEN <<>>
    ELSE LET least == CHOOSE x \in S : \A y \in S : x <= y
         IN  <<least>> \o ChunksById(S \ {least})

\* _get_chunk_metadata of rank.py: the provenance of the row at offset
\* chunk_idx of the chunks table ordered by id, None past the last row.
_get_chunk_metadata(chunk_idx) ==
    LET rows == ChunksById(DOMAIN chunks)
    IN  IF chunk_idx < Len(rows)
        THEN Provenance(chunks[rows[chunk_idx + 1]])
        ELSE None

\* The first loop of rank_results: the hits whose metadata is found, as
\* (chunk_idx, semantic_score, metadata).
RECURSIVE ResolvedHits(_)
ResolvedHits(semantic_results) ==
    IF semantic_results = <<>> THEN <<>>
    ELSE LET hit == Head(semantic_results)
             metadata == _get_chunk_metadata(hit[1])
         IN  (IF metadata # None THEN <<<<hit[1], hit[2], metadata>>>> ELSE <<>>)
                 \o ResolvedHits(Tail(semantic_results))

\* _get_chunk_text
_get_chunk_text(episode_id, start, end) ==
    LET episode == get_episode(episode_id)
    IN  IF episode = None THEN <<>>
        ELSE LET full_text == IF episode.transcript # <<>>
                              THEN episode.transcript
                              ELSE episode.description
             IN  IF start >= Len(full_text) \/ end > Len(full_text)
                 THEN full_text
                 ELSE Slice(full_text, start, end)

\* str.split(): the maximal runs of non-whitespace characters.
RECURSIVE split(_)
split(text) ==
    LET rest == lstrip(text)
        stops == {i \in 1..Len(rest) : rest[i] \in Whitespace}
        word_end == IF stops = {} THEN Len(rest)
                    ELSE (CHOOSE i \in stops : \A j \in stops : i <= j) - 1
    IN  IF rest = <<>> THEN <<>>
        ELSE <<SubSeq(rest, 1, word_end)>>
                \o split(SubSeq(rest, word_end + 1, Len(rest)))

\* word in snippet
Contains(text, word) ==
    \E i \in 0..(Len(text) - Len(word)) :
        SubSeq(text, i + 1, i + Len(word)) = word

\* Lines 143-151: the window start the loop over range(0, stop, 50)
\* settles on, having looked at the starts from i on with best_pos and
\* max_score so far.  A query word counts once for each time the query
\* holds it.
RECURSIVE BestPos(_, _, _, _, _, _, _)
BestPos(text_lower, words, snippet_length, stop, i, best_pos, max_score) ==
    IF i >= stop THEN best_pos
    ELSE LET snippet == Slice(text_lower, i, Min(Len(text_lower), i + snippet_length))
             score == Cardinality({k \in 1..Len(words) : Contains(snippet, words[k])})
         IN  IF score > max_score
             THEN BestPos(text_lower, words, snippet_length, stop, i + 50, i, score)
             ELSE BestPos(text_lower, words, snippet_length, stop, i + 50,
                          best_pos, max_score)

Ellipsis == <<".", ".", ".">>

\* Lines 153-165 (chunk.py 145-157): the snippet cut around best_pos.
SnippetAtBothSides(text, best_pos, snippet_length) ==
    LET start == Max(0, best_pos - 20)
        end == Min(Len(text), best_pos + snippet_length + 20)
    IN  (IF start > 0 THEN Ellipsis ELSE <<>>)
           \o Slice(text, start, end)
           \o (IF end < Len(text) THEN Ellipsis ELSE <<>>)
SnippetAt(text, best_pos, snippet_length) ==
    LET start == Max(0, best_pos - 20)
        end == Min(Len(text), start + snippet_length + 20)
    IN  (IF start > 0 THEN Ellipsis ELSE <<>>)
           \o Slice(text, start, end)
           \o (IF end < Len(text) THEN Ellipsis ELSE <<>>)

_generate_snippet(text, query, snippet_length) ==
    IF Len(text) <= snippet_length THEN text
    ELSE SnippetAt(text,
                   BestPos(lower(text), split(lower(query)), snippet_length,
                           Len(text) - snippet_length, 0, 0, 0),
                   snippet_length)

\* get_chunk_snippet of chunk.py, on the chunk's text: the same but for the
\* loop, which is over range(0, len(text) - snippet_length + 1, 50).
get_chunk_snippet(text, query, snippet_length) ==
    IF Len(text) <= snippet_length THEN text
    ELSE SnippetAt(text,
                   BestPos(lower(text), split(lower(query)), snippet_length,
                           Len(text) - snippet_length + 1, 0, 0, 0),
                   snippet_length)

\* snippet_length of _generate_snippet as rank_results calls it.
SNIPPET_LENGTH == 200

\* Lines 52-83: the second loop of rank_results, one SearchResult per
\* resolved hit whose text and episode are found, in the order of the hits.
\* Of the episode's columns the result carries the title (pub_date and link
\* are copied the same way).
RECURSIVE RankedResults(_, _)
RankedResults(query, chunk_metadata) ==
    IF chunk_metadata = <<>> THEN <<>>
    ELSE LET semantic_score == Head(chunk_metadata)[2]
             episode_id == Head(chunk_metadata)[3][1]
             chunk_text == _get_chunk_text(episode_id, Head(chunk_metadata)[3][2],
                                           Head(chunk_metadata)[3][3])
             lexical == lexical_score(query, chunk_text)
             episode == get_episode(episode_id)
         IN  (IF chunk_text = <<>> \/ episode = None THEN <<>>
              ELSE <<[episode_id |-> episode_id,
                      title |-> episode.title,
                      score |-> hybrid_score(semantic_score, lexical, HYBRID_ALPHA),
                      snippet |-> _generate_snippet(chunk_text, query, SNIPPET_LENGTH),
                      semantic_score |-> semantic_score,
                      lexical_score |-> lexical]>>)
                \o RankedResults(query, Tail(chunk_metadata))

\* list.sort(key=lambda x: x.score, reverse=True) is stable: an element
\* goes behind every element that scores at least as much.
RECURSIVE InsertByScoreBeforeEqual(_, _)
InsertByScoreBeforeEqual(sorted, result) ==
    IF sorted = <<>> THEN <<result>>
    ELSE IF Head(sorted).score > result.score
    THEN <<Head(sorted)>> \o InsertByScoreBeforeEqual(Tail(sorted), result)
    ELSE <<result>> \o sorted
RECURSIVE InsertByScore(_, _)
InsertByScore(sorted, result) ==
    IF sorted = <<>> THEN <<result>>
    ELSE IF Head(sorted).score >= result.score
    THEN <<Head(sorted)>> \o InsertByScore(Tail(sorted), result)
    ELSE <<result>> \o sorted

RECURSIVE SortedByScore(_, _)
SortedByScore(sorted, results) ==
    IF results = <<>> THEN sorted
    ELSE SortedByScore(InsertByScore(sorted, Head(results)), Tail(results))

\* results[:top_k]; a negative top_k counts from the end.
UpToAll(results, top_k) == results
UpTo(results, top_k) ==
    IF top_k >= 0 THEN SubSeq(results, 1, Min(top_k, Len(results)))
    ELSE SubSeq(results, 1, Max(0, Len(results) + top_k))

\* rank_results.  It reads the database and changes nothing.  Beside the
\* returned list, ret keeps the arguments and the two lists the call
\* builds on the way: chunk_metadata and ranked_results before the sort.
rank_results(query, semantic_results, top_k) ==
    LET chunk_metadata == ResolvedHits(semantic_results)
        ranked_results == RankedResults(query, chunk_metadata)
    IN  /\ ret' = [op |-> "rank_results", query |-> query,
                   hits |-> semantic_results, top_k |-> top_k,
                   chunk_metadata |-> chunk_metadata,
                   ranked_results |-> ranked_results,
                   value |-> UpTo(SortedByScore(<<>>, ranked_results), top_k)]
        /\ UNCHANGED <<task, episodes, chunks, next_id, faiss_file, emb_file,
                       _index, _chunk_map, hist>>

\* Titles in the order of ORDER BY title under a binary collation.
CharCode(c) ==
    IF c = " " THEN 32 ELSE IF c = "A" THEN 65 ELSE IF c = "B" THEN 66
    ELSE IF c = "a" THEN 97 ELSE 98

RECURSIVE TitleLeq(_, _)
TitleLeq(a, b) ==
    IF a = <<>> THEN TRUE
    ELSE IF b = <<>> THEN FALSE
    ELSE IF Head(a) = Head(b) THEN TitleLeq(Tail(a), Tail(b))
    ELSE CharCode(Head(a)) < CharCode(Head(b))

\* column LIKE '%query%'.  SQLite compares ASCII letters without regard to
\* case, PostgreSQL with; which of the two the deployment runs on is
\* ignore_case.
Like(column, query, ignore_case) ==
    IF ignore_case THEN Contains(lower(column), lower(query))
    ELSE Contains(column, query)

\* Database.search_episodes_title_desc: the lists of episode ids the query
\* may return, the matching episodes ordered by title; the order of
\* episodes with the same title is the database's to choose.
search_episodes_title_desc(query, ignore_case) ==
    LET found == {id \in DOMAIN episodes :
                     \/ Like(episodes[id].title, query, ignore_case)
                     \/ Like(episodes[id].description, query, ignore_case)}
    IN  {order \in [1..Cardinality(found) -> found] :
            /\ \A i, j \in DOMAIN order : i # j => order[i] # order[j]
            /\ \A i, j \in DOMAIN order :
                  i < j => TitleLeq(episodes[order[i]].title,
                                    episodes[order[j]].title)}

\* Lines 172-195 of lexical_search_episodes: one SearchResult per episode
\* found.
LexicalResult(query, id) ==
    LET lexical == Max(lexical_score(query, episodes[id].title),
                       lexical_score(query, episodes[id].description))
    IN  [episode_id |-> id,
         title |-> episodes[id].title,
         score |-> lexical,
         snippet |-> episodes[id].title \o <<".", " ">>
                        \o UpTo(episodes[id].description, 150) \o Ellipsis,
         semantic_score |-> 0,
         lexical_score |-> lexical]

lexical_search_episodes(query, top_k) ==
    /\ \E ignore_case \in BOOLEAN :
         \E found \in search_episodes_title_desc(query, ignore_case) :
            ret' = [op |-> "lexical_search_episodes", query |-> query,
                    top_k |-> top_k,
                    value |-> UpTo(SortedByScore(<<>>,
                                      [i \in DOMAIN found |->
                                          LexicalResult(query, found[i])]),
                                   top_k)]
    /\ UNCHANGED <<task, episodes, chunks, next_id, faiss_file, emb_file,
                   _index, _chunk_map, hist>>

----------------------------------------------------------------------------
(* app/cli.py *)

\* Step 2 of update: every episode of the feed upserted, in feed order.
RECURSIVE UpsertedEpisodes(_, _)
UpsertedEpisodes(episode_table, feed) ==
    IF feed = <<>> THEN episode_table
    ELSE UpsertedEpisodes(EpisodesAfterUpsert(episode_table, Head(feed).guid),
                          Tail(feed))

\* Step 3 of update: for every episode of the feed, in feed order, its
\* chunks stored and appended to all_chunks, unless it has none.
RECURSIVE StoredChunksOf(_, _, _)
StoredChunksOf(acc, episode_table, feed) ==
    IF feed = <<>> THEN acc
    ELSE LET episode_id == EpisodeIdOf(episode_table, Head(feed).guid)
             new_chunks == Head(feed).chunks
         IN  StoredChunksOf(
                 IF new_chunks # <<>>
                 THEN [table |-> ChunksAfterAdd(acc.table, acc.next, episode_id, new_chunks),
                       next |-> acc.next + Len(new_chunks),
                       all_chunks |-> acc.all_chunks \o new_chunks]
                 ELSE acc,
                 episode_table, Tail(feed))

\* The update command, run in a process of its own.  feed is what
\* fetch_episode_data returns, each episode with the chunks
\* chunk_episode_content makes of it.
update(feed) ==
    IF feed = <<>>
    THEN /\ ret' = [op |-> "update", raised |-> FALSE]
         /\ UNCHANGED <<task, episodes, chunks, next_id, faiss_file, emb_file,
                        _index, _chunk_map, hist>>
    ELSE LET episode_table == UpsertedEpisodes(episodes, feed)
             stored == StoredChunksOf([table |-> chunks, next |-> next_id,
                                       all_chunks |-> <<>>],
                                      episode_table, feed)
             embeddings == embed_chunks(stored.all_chunks)
             chunk_ids == AllChunkIds(stored.table, episode_table)
         IN  /\ stored.next - 1 <= MaxId
             /\ episodes' = episode_table
             /\ chunks' = stored.table
             /\ next_id' = stored.next
             /\ emb_file' = SavedEmbeddings(embeddings, chunk_ids)
             /\ IF validate_embeddings(embeddings, chunk_ids)
                THEN /\ faiss_file' = WrittenIndex(stored.table, embeddings, chunk_ids)
                     /\ hist' = [paired |-> TRUE, fresh |-> TRUE]
                     /\ ret' = [op |-> "update", raised |-> FALSE]
                ELSE /\ faiss_file' = faiss_file
                     /\ hist' = [paired |-> FALSE,
                                 fresh |-> hist.fresh /\ stored.table = chunks]
                     /\ ret' = [op |-> "update", raised |-> TRUE]
             /\ UNCHANGED <<task, _index, _chunk_map>>

\* The rebuild-index command, run in a process of its own: embeds every
\* stored chunk, saves the sidecar, builds and writes the index.
rebuild_index_command ==
    LET chunk_ids == get_all_chunks
        embeddings == embed_chunks(Rows(chunks, chunk_ids))
    IN  IF chunk_ids = <<>>
        THEN /\ ret' = [op |-> "rebuild-index", raised |-> FALSE]
             /\ UNCHANGED <<task, episodes, chunks, next_id, faiss_file, emb_file,
                            _index, _chunk_map, hist>>
        ELSE /\ emb_file' = SavedEmbeddings(embeddings, chunk_ids)
             /\ IF validate_embeddings(embeddings, chunk_ids)
                THEN /\ faiss_file' = WrittenIndex(chunks, embeddings, chunk_ids)
                     /\ hist' = [paired |-> TRUE, fresh |-> TRUE]
                     /\ ret' = [op |-> "rebuild-index", raised |-> FALSE]
                ELSE /\ faiss_file' = faiss_file
                     /\ hist' = [hist EXCEPT !.paired = FALSE]
                     /\ ret' = [op |-> "rebuild-index", raised |-> TRUE]
             /\ UNCHANGED <<task, episodes, chunks, next_id, _index, _chunk_map>>

----------------------------------------------------------------------------
(* The index component driven through its interface *)

Init ==
    /\ episodes = [id \in Episodes |-> EpisodeRow(id)]
    /\ chunks = [id \in {} |-> <<>>]
    /\ next_id = 1
    /\ faiss_file = NoFile
    /\ emb_file = NoFile
    /\ _index = None
    /\ _chunk_map = EmptyMap
    /\ ret = [op |-> "init"]
    /\ hist = [paired |-> FALSE, fresh |-> TRUE]
    /\ task = Idle

\* range(n), the id list the tests pass: 0, 1, ..., n - 1.
RangeIds(n) == [i \in 1..n |-> i - 1]

\* id lists passed to build directly.
IdInputs ==
    {RangeIds(n) : n \in 0..MaxN} \cup {get_all_chunks}

Next ==
    \/ \E e \in Episodes, cs \in ChunkLists : add_chunks(e, cs)
    \/ \E emb \in EmbInputs, ids \in IdInputs : build_faiss_index(emb, ids)
    \/ rebuild_index_command
    \/ load_faiss_index
    \/ clear_index
    \/ delete_index_file
    \/ corrupt_index_file
    \/ clear_embeddings
    \/ rebuild_index

Spec == Init /\ [][Next]_vars

----------------------------------------------------------------------------
(* Properties of the index lifecycle *)

\* The build a successful build return belongs to wrote the index file, so
\* its id list is the one the file records.
BuildReturned == ret.op = "build" /\ ~ret.raised

InvalidBuildInput(embeddings, chunk_ids) ==
    \/ Len(embeddings) # Len(chunk_ids)
    \/ Len(embeddings) = 0
    \/ \E i \in 1..Len(embeddings) : NaN \in Range(embeddings[i])

\* C4: a build called with a count mismatch, with no vectors or with a
\* non-finite coordinate raises, and leaves the index file, the index
\* object and the chunk map exactly as they were.  Stated on the step of a
\* build call: if it raised, the three are unchanged; if it returned, the
\* arrays it was called with (the file it wrote records them) were none of
\* the three rejected shapes.
C4_InvalidBuildChangesNothing ==
    [][ret'.op = "build" =>
          IF ret'.raised
          THEN /\ faiss_file' = faiss_file
               /\ _index' = _index
               /\ _chunk_map' = _chunk_map
          ELSE ~InvalidBuildInput(faiss_file'.vecs, faiss_file'.chunk_ids)]_vars

\* A build raised while an index built earlier is on disk and in memory.
C4_Witness ==
    /\ ret.op = "build" /\ ret.raised
    /\ faiss_file # NoFile /\ faiss_file # Corrupt
    /\ _index # None
    /\ _chunk_map # EmptyMap

----------------------------------------------------------------------------
(* Searching the index *)

\* Two chunks of episode 1 are stored.
StoredChunks ==
    [id \in 1..2 |-> [episode_id |-> 1, idx |-> id - 1, text |-> id + 1,
                      start |-> id - 1, end |-> id + 1]]

InitSearch ==
    /\ episodes = [id \in Episodes |-> EpisodeRow(id)]
    /\ chunks = StoredChunks
    /\ next_id = 3
    /\ faiss_file = NoFile
    /\ emb_file = NoFile
    /\ _index = None
    /\ _chunk_map = EmptyMap
    /\ ret = [op |-> "init"]
    /\ hist = [paired |-> FALSE, fresh |-> TRUE]
    /\ task = Idle

\* Coordinates of the indexed vectors: 0, 1/VecScale and 1.
SearchCoords == {0, 1, VecScale}

SeqsUpTo(S, n) == UNION {[1..m -> S] : m \in 0..n}

SearchEmbInputs == SeqsUpTo({Vec(c) : c \in SearchCoords}, MaxN)

\* Queries: three fixed ones and, as in the tests, the indexed vectors.
QueryInputs ==
    {Vec(0), Vec(2), Vec(VecScale + 2)}
        \cup (IF _index = None THEN {} ELSE Range(_index.vecs))

NextSearch ==
    \/ \E emb \in SearchEmbInputs : build_faiss_index(emb, RangeIds(Len(emb)))
    \/ load_faiss_index
    \/ clear_index
    \/ \E q \in QueryInputs, k \in 1..MaxTopK : semantic_search(q, k)

SpecSearch == InitSearch /\ [][NextSearch]_vars

SearchReturned == ret.op = "semantic_search"

\* C8: (as the specification states it) semantic_search returns the empty
\* sequence whenever is_ready() is false, also when an index object exists
\* and the chunk map is empty.
C8_NotReadyGivesNoHits ==
    (SearchReturned /\ ~is_index_loaded) => ret.value = <<>>

\* C8, amended: semantic_search returns the empty sequence exactly when no
\* index object exists; over an existing index it returns hits whether or
\* not the chunk map is empty, so also when is_ready() is false.
C8_NoIndexGivesNoHits ==
    SearchReturned => (ret.value = <<>> <=> _index = None)

\* A search over an index whose chunk map is empty returned hits.
C8_Witness ==
    /\ SearchReturned
    /\ _index # None /\ _chunk_map = EmptyMap
    /\ Len(ret.value) >= 1

Hit(i) == ret.value[i]
HitDistance(i) == L2sq(ret.q, _index.vecs[Hit(i)[1] + 1])

PairwiseDistinct(vecs) ==
    \A i, j \in 1..Len(vecs) : i # j => vecs[i] # vecs[j]

\* C10: over a loaded index of pairwise distinct vectors, a search for the
\* vector at position i returns position i first, with similarity above
\* 0.9.
C10_SelfQueryRanksFirst ==
    ( /\ SearchReturned
      /\ _index # None /\ _index.via = "read"
      /\ PairwiseDistinct(_index.vecs) )
    => \A i \in 0..(Len(_index.vecs) - 1) :
          ret.q = _index.vecs[i + 1] =>
              /\ Len(ret.value) >= 1
              /\ Hit(1)[1] = i
              /\ Hit(1)[2] * 10 > 9 * One

\* The second of two distinct loaded vectors was searched for and came
\* first, a vector at distance 1/16 behind it.
C10_Witness ==
    /\ SearchReturned
    /\ _index # None /\ _index.via = "read"
    /\ Len(_index.vecs) >= 2 /\ PairwiseDistinct(_index.vecs)
    /\ ret.q = _index.vecs[2]
    /\ Len(ret.value) >= 2
    /\ Hit(1)[1] = 1
    /\ Hit(2)[2] > 0

----------------------------------------------------------------------------
(* Ranking after the chunks table has moved on *)

\* Semantic hits handed to rank: what semantic_search can return over the
\* index in memory, nearest first.
HitInputs ==
    IF _index = None THEN {<<>>}
    ELSE {<<<<p, FloatUnit>>>> : p \in 0..(Len(_index.vecs) - 1)}
            \cup {<<<<0, FloatUnit>>, <<p, 0>>>> : p \in 1..(Len(_index.vecs) - 1)}

\* A library user indexes every stored chunk, in the order of
\* get_all_chunks.
NextRank ==
    \/ \E e \in Episodes, cs \in ChunkLists : add_chunks(e, cs)
    \/ build_faiss_index(embed_chunks(Rows(chunks, get_all_chunks)), get_all_chunks)
    \/ \E hits \in HitInputs : rank_results(<<"a", "b">>, hits, TOP_K)

SpecRank == Init /\ [][NextRank]_vars

\* The hits of the last rank_results call resolved through the chunk map.
RECURSIVE ResolvedByChunkMap(_)
ResolvedByChunkMap(semantic_results) ==
    IF semantic_results = <<>> THEN <<>>
    ELSE LET hit == Head(semantic_results)
             metadata == get_chunk_metadata(hit[1])
         IN  (IF metadata # None THEN <<<<hit[1], hit[2], metadata>>>> ELSE <<>>)
                 \o ResolvedByChunkMap(Tail(semantic_results))

\* C2: (as the specification states it) rank resolves the position of
\* every semantic hit through the chunk map, to the provenance of the id at
\* that position of the build's id list, whatever the chunks table holds by
\* then.
C2_RankResolvesThroughChunkMap ==
    ret.op = "rank_results" =>
        ret.chunk_metadata = ResolvedByChunkMap(ret.hits)

----------------------------------------------------------------------------
(* A reader beside a build or a load *)

ConcEmbInputs == {GoodEmb(n) : n \in 0..MaxN}

NextConc ==
    \/ \E emb \in ConcEmbInputs, ids \in IdInputs : build_begin(emb, ids)
    \/ build_write_index
    \/ chunk_map_clear
    \/ chunk_map_fill
    \/ build_publish
    \/ load_begin
    \/ load_return
    \/ rebuild_index_command
    \/ get_index_stats

SpecConc == InitSearch /\ [][NextConc]_vars

\* The index and chunk map the call under way leaves when it returns.
Completed ==
    [index |-> IndexOf(task.embeddings, IF task.op = "build" THEN "add" ELSE "read"),
     map |-> _build_chunk_map(task.chunk_ids)]

\* C3: (as the specification states it) what a reader observes while a
\* build or load is under way is the index with its chunk map as the call
\* found them, or as the call leaves them: never one of the two with an
\* empty, a partly filled or the other one's counterpart.
C3_ReadersSeeWholePairs ==
    (ret.op = "get_index_stats" /\ task # Idle) =>
        \/ ret.value = IndexStats(task.before.index, task.before.map)
        \/ ret.value = IndexStats(Completed.index, Completed.map)

----------------------------------------------------------------------------
(* Ingestion runs *)

InitIngest ==
    /\ episodes = [id \in {} |-> <<>>]
    /\ chunks = [id \in {} |-> <<>>]
    /\ next_id = 1
    /\ faiss_file = NoFile
    /\ emb_file = NoFile
    /\ _index = None
    /\ _chunk_map = EmptyMap
    /\ ret = [op |-> "init"]
    /\ hist = [paired |-> FALSE, fresh |-> TRUE]
    /\ task = Idle

\* An episode of the feed: guid 1 has one chunk, guid 2 has two; either
\* may come without content (no title, description or transcript).
FeedEpisode(guid, with_content) ==
    [guid |-> guid,
     chunks |-> IF ~with_content THEN <<>>
                ELSE IF guid = 1
                THEN <<[idx |-> 0, text |-> 1, start |-> 0, end |-> 3]>>
                ELSE <<[idx |-> 0, text |-> 2, start |-> 0, end |-> 2],
                       [idx |-> 1, text |-> 3, start |-> 1, end |-> 3]>>]

FeedInputs ==
    {<<>>}
      \cup {<<FeedEpisode(g, c)>> : g \in Episodes, c \in BOOLEAN}
      \cup {<<FeedEpisode(g, c), FeedEpisode(3 - g, d)>> :
                g \in Episodes, c \in BOOLEAN, d \in BOOLEAN}

NextIngest ==
    \/ \E feed \in FeedInputs : update(feed)
    \/ rebuild_index_command
    \/ rebuild_index
    \/ load_faiss_index

SpecIngest == InitIngest /\ [][NextIngest]_vars

\* C7: (as the specification states it) whatever ingestion runs came
\* before, failed builds included, the sidecar on disk lists exactly one id
\* per vector of the index file on disk and was written by the run that
\* wrote that index file.
C7_SidecarMatchesIndexFile ==
    (faiss_file # NoFile /\ faiss_file # Corrupt /\ emb_file # NoFile) =>
        /\ Len(emb_file.chunk_ids) = Len(faiss_file.vecs)
        /\ hist.paired

----------------------------------------------------------------------------
(* app/chunk.py: to_chunks, statement by statement *)

\* The call runs in `task`; `ret` holds the call's arguments before it
\* runs and the arguments with the returned list after.  iterations and
\* discarded are history fields: the loop iterations run and the windows
\* dropped for trimming to empty text.

Returned(call, value, iterations, discarded) ==
    [op |-> "to_chunks", text |-> call.text, chunk_size |-> call.chunk_size,
     overlap |-> call.overlap, value |-> value,
     iterations |-> iterations, discarded |-> discarded]

\* Lines 15-30: the two early returns, or the entry into the loop.
to_chunks_enter ==
    /\ task = Idle
    /\ ret.op = "call"
    /\ LET text == strip(ret.text)
       IN  IF text = <<>>
           THEN /\ ret' = Returned(ret, <<>>, 0, 0)
                /\ task' = task
           ELSE IF Len(text) <= ret.chunk_size
           THEN /\ ret' = Returned(ret, <<[idx |-> 0, text |-> text,
                                          start |-> 0, end |-> Len(text)]>>,
                                   0, 0)
                /\ task' = task
           ELSE /\ task' = [pc |-> "while", text |-> text, start |-> 0,
                            end |-> 0, chunk_idx |-> 0, chunks |-> <<>>,
                            iterations |-> 0, discarded |-> 0]
                /\ ret' = ret
    /\ UNCHANGED <<episodes, chunks, next_id, faiss_file, emb_file,
                   _index, _chunk_map, hist>>

\* Lines 32-60: one iteration of the loop.  The break of line 59 and the
\* loop condition test the same thing, so the iteration goes back to the
\* loop head in either case.
to_chunks_iteration ==
    /\ task.pc = "while"
    /\ task.start < Len(task.text)
    /\ LET end == WindowEnd(task.text, task.start, ret.chunk_size)
           chunk_text == strip(Slice(task.text, task.start, end))
       IN  task' = [task EXCEPT
                 !.chunks = IF chunk_text # <<>>
                            THEN Append(@, [idx |-> task.chunk_idx,
                                            text |-> chunk_text,
                                            start |-> task.start,
                                            end |-> end])
                            ELSE @,
                 !.chunk_idx = NextChunkIdx(@, chunk_text),
                 !.start = NextStart(@, end, ret.overlap),
                 !.end = end,
                 !.iterations = @ + 1,
                 !.discarded = IF chunk_text = <<>> THEN @ + 1 ELSE @]
    /\ UNCHANGED <<episodes, chunks, next_id, faiss_file, emb_file,
                   _index, _chunk_map, ret, hist>>

\* Line 63.
to_chunks_return ==
    /\ task.pc = "while"
    /\ task.start >= Len(task.text)
    /\ ret' = Returned(ret, task.chunks, task.iterations, task.discarded)
    /\ task' = Idle
    /\ UNCHANGED <<episodes, chunks, next_id, faiss_file, emb_file,
                   _index, _chunk_map, hist>>

Repeat(word, n) ==
    [i \in 1..(n * Len(word)) |-> word[((i - 1) % Len(word)) + 1]]

\* test_to_chunks_long_text's parameters on a text of 40 five-character
\* words, each followed by a space.
ScenarioA ==
    [op |-> "call",
     text |-> Repeat(<<Letter, Letter, Letter, Letter, Space>>, 40),
     chunk_size |-> 100, overlap |-> 20]

\* Texts of BreakDen + 1 and BreakDen + 2 characters with one space, cut
\* with chunk_size = BreakDen: the sizes at which 70% of chunk_size is a
\* whole number of characters.
OneSpaceText(n, p) == [i \in 1..n |-> IF i = p + 1 THEN Space ELSE Letter]
BreakCalls ==
    {[op |-> "call", text |-> OneSpaceText(n, p),
      chunk_size |-> BreakDen, overlap |-> ov] :
        n \in {BreakDen + 1, BreakDen + 2}, p \in 1..(BreakDen - 1),
        ov \in {0, 2}}

ChunkCalls ==
    {[op |-> "call", text |-> t, chunk_size |-> cs, overlap |-> ov] :
        t \in SeqsUpTo(Chars, MaxTextLen), cs \in 1..MaxChunkSize,
        ov \in 0..MaxChunkSize}
      \cup BreakCalls \cup {ScenarioA}

InitChunk ==
    /\ episodes = [id \in Episodes |-> EpisodeRow(id)]
    /\ chunks = [id \in {} |-> <<>>]
    /\ next_id = 1
    /\ faiss_file = NoFile
    /\ emb_file = NoFile
    /\ _index = None
    /\ _chunk_map = EmptyMap
    /\ ret \in ChunkCalls
    /\ hist = [paired |-> FALSE, fresh |-> TRUE]
    /\ task = Idle

NextChunk ==
    \/ to_chunks_enter
    \/ to_chunks_iteration
    \/ to_chunks_return

SpecChunk == InitChunk /\ [][NextChunk]_vars

ChunksReturned == ret.op = "to_chunks"

\* s is T without its leading and trailing whitespace.
IsTrimOf(s, T) ==
    \E a \in 1..(Len(T) + 1), b \in 0..Len(T) :
        /\ s = SubSeq(T, a, b)
        /\ \A i \in 1..Len(T) : (i < a \/ i > b) => T[i] \in Whitespace
        /\ s # <<>> => (s[1] \notin Whitespace /\ s[Len(s)] \notin Whitespace)

\* C11: to_chunks on a text no longer than chunk_size returns exactly one
\* chunk, whose text is the text without its leading and trailing
\* whitespace, with start = 0 and end = the length of that trimmed text; an
\* empty or whitespace-only text, of any length, returns the empty list.
C11_ShortTextIsOneChunk ==
    ChunksReturned =>
        IF \A i \in 1..Len(ret.text) : ret.text[i] \in Whitespace
        THEN ret.value = <<>>
        ELSE Len(ret.text) <= ret.chunk_size =>
                /\ Len(ret.value) = 1
                /\ IsTrimOf(ret.value[1].text, ret.text)
                /\ ret.value[1].start = 0
                /\ ret.value[1].end = Len(ret.value[1].text)

C11_Witness ==
    /\ ChunksReturned
    /\ Len(ret.text) <= ret.chunk_size
    /\ Len(ret.value) = 1
    /\ Len(ret.value[1].text) < Len(ret.text)
    /\ ret.text[Len(ret.text)] \in Whitespace

\* C12: to_chunks terminates for every text, every chunk_size >= 1 and
\* every overlap >= 0, overlap >= chunk_size included: each loop iteration
\* leaves the window start strictly greater than it found it, and the loop
\* never runs more iterations than the (trimmed) text has characters.
C12_StartStrictlyIncreases ==
    /\ [](task.pc = "while" => task.iterations <= Len(task.text))
    /\ [][task.pc = "while" /\ task'.pc = "while"
              => /\ task'.iterations = task.iterations + 1
                 /\ task'.start > task.start]_vars

C12_Witness ==
    /\ ChunksReturned
    /\ ret.overlap >= ret.chunk_size
    /\ ret.iterations = Len(strip(ret.text))
    /\ ret.iterations >= 3

\* Position p (0-based) of the text lies in [start, end) of a returned chunk.
Covered(p) ==
    \E i \in 1..Len(ret.value) : ret.value[i].start <= p /\ p < ret.value[i].end

\* C13: (as the specification states it) for a text longer than chunk_size
\* and 0 <= overlap < chunk_size the returned chunks cover every character
\* position of the text, and each chunk starts before the chunk before it
\* ends.
C13_ChunksCoverAndOverlap ==
    (ChunksReturned /\ Len(ret.text) > ret.chunk_size
                    /\ ret.overlap < ret.chunk_size) =>
        /\ \A p \in 0..(Len(ret.text) - 1) : Covered(p)
        /\ \A i \in 1..(Len(ret.value) - 1) :
              ret.value[i + 1].start < ret.value[i].end

\* C13, amended: positions are positions of the trimmed text.  For a
\* trimmed text longer than chunk_size and 0 <= overlap < chunk_size, every
\* non-whitespace character lies in some chunk and chunk starts strictly
\* increase; when no window was discarded as whitespace, the chunks cover
\* the whole trimmed text and consecutive chunks overlap (the next starts
\* before the previous ends) for overlap >= 1 and abut (the next starts
\* where the previous ends) for overlap = 0.
C13_ChunksCoverText ==
    LET text == strip(ret.text)
    IN  (ChunksReturned /\ Len(text) > ret.chunk_size
                        /\ ret.overlap < ret.chunk_size) =>
            /\ \A p \in 0..(Len(text) - 1) :
                  text[p + 1] \notin Whitespace => Covered(p)
            /\ \A i \in 1..(Len(ret.value) - 1) :
                  ret.value[i + 1].start > ret.value[i].start
            /\ ret.discarded = 0 =>
                  /\ \A p \in 0..(Len(text) - 1) : Covered(p)
                  /\ \A i \in 1..(Len(ret.value) - 1) :
                        IF ret.overlap >= 1
                        THEN ret.value[i + 1].start < ret.value[i].end
                        ELSE ret.value[i + 1].start = ret.value[i].end

C13_Witness ==
    /\ ChunksReturned
    /\ Len(strip(ret.text)) > ret.chunk_size
    /\ ret.overlap >= 1
    /\ ret.overlap < ret.chunk_size
    /\ ret.discarded = 0
    /\ Len(ret.value) >= 3
    /\ \E i \in 1..Len(ret.value) :
          ret.value[i].end - ret.value[i].start < ret.chunk_size
          /\ ret.value[i].end < Len(strip(ret.text))

\* The nearest space before position `end` and not before `start`, -1 when
\* there is none.
NearestSpaceBefore(text, start, end) ==
    IF \E p \in start..(end - 1) : text[p + 1] = Space
    THEN CHOOSE p \in start..(end - 1) :
            /\ text[p + 1] = Space
            /\ \A q \in (p + 1)..(end - 1) : text[q + 1] # Space
    ELSE 0 - 1

\* C14: (as the specification states it) for a window whose computed end,
\* start + chunk_size, lies before the end of the text, the end is moved
\* back to the nearest preceding space exactly when the window then still
\* has at least 70% of chunk_size characters, and stays at
\* start + chunk_size otherwise; so every chunk that does not end at the
\* end of the text spans at least 70% of chunk_size.
C14_BreakAtSpaceFromSeventyPercent ==
    /\ [][(task.pc = "while" /\ task'.pc = "while"
              /\ task.start + ret.chunk_size < Len(task.text))
            => LET space == NearestSpaceBefore(task.text, task.start,
                                               task.start + ret.chunk_size)
               IN  task'.end =
                      IF space >= 0
                           /\ BreakDen * (space - task.start)
                                 >= BreakNum * ret.chunk_size
                      THEN space
                      ELSE task.start + ret.chunk_size]_vars
    /\ [](ChunksReturned =>
            \A i \in 1..Len(ret.value) :
               ret.value[i].end < Len(strip(ret.text)) =>
                  BreakDen * (ret.value[i].end - ret.value[i].start)
                     >= BreakNum * ret.chunk_size)

\* C15: the chunks one to_chunks call returns carry idx 0, 1, 2, ... in
\* output order, without gaps or repeats: the j-th chunk (counting from 0)
\* has idx j, also when windows before it were discarded for trimming to
\* empty text.
C15_IdxIsOutputPosition ==
    /\ ChunksReturned =>
          \A j \in 1..Len(ret.value) : ret.value[j].idx = j - 1
    /\ task.pc = "while" =>
          /\ task.chunk_idx = Len(task.chunks)
          /\ \A j \in 1..Len(task.chunks) : task.chunks[j].idx = j - 1

C15_Witness ==
    /\ ChunksReturned
    /\ ret.discarded >= 1
    /\ \E j \in 1..(Len(ret.value) - 1) :
          /\ ret.value[j + 1].start > ret.value[j].end
          /\ ret.value[j + 1].idx = j

\* C16: (as the specification states it) for every input text longer than
\* chunk_size, the text of 40 five-character words cut with chunk_size 100
\* and overlap 20 among them, to_chunks returns at least two chunks, no
\* chunk's text is longer than chunk_size, and the last chunk's end is the
\* length of the input text.
C16_LongTextChunks ==
    (ChunksReturned /\ Len(ret.text) > ret.chunk_size) =>
        /\ Len(ret.value) >= 2
        /\ \A i \in 1..Len(ret.value) :
              Len(ret.value[i].text) <= ret.chunk_size
        /\ ret.value[Len(ret.value)].end = Len(ret.text)

\* The length of T without its leading and trailing whitespace.
TrimmedLen(T) ==
    LET solid == {i \in 1..Len(T) : T[i] \notin Whitespace}
    IN  IF solid = {} THEN 0
        ELSE (CHOOSE i \in solid : \A j \in solid : j <= i)
                - (CHOOSE i \in solid : \A j \in solid : i <= j) + 1

\* C16, amended: for every input text whose trimmed form is longer than
\* chunk_size, to_chunks returns at least two chunks, no chunk's text is
\* longer than chunk_size, and the last chunk's end is the length of the
\* trimmed text (199, not 200, for the 40 words each followed by a space).
C16_LongTrimmedTextChunks ==
    (ChunksReturned /\ TrimmedLen(ret.text) > ret.chunk_size) =>
        /\ Len(ret.value) >= 2
        /\ \A i \in 1..Len(ret.value) :
              Len(ret.value[i].text) <= ret.chunk_size
        /\ ret.value[Len(ret.value)].end = TrimmedLen(ret.text)

C16_Witness ==
    /\ ChunksReturned
    /\ ret.text = ScenarioA.text
    /\ ret.chunk_size = ScenarioA.chunk_size
    /\ ret.overlap = ScenarioA.overlap
    /\ Len(ret.value) >= 2
    /\ ret.value[Len(ret.value)].end = Len(ret.text) - 1

\* 0.0, 0.1, ..., 1.0 and the 0.11 whose mean with itself is not 0.11.
ScoreInputs == {Float(k, 10) : k \in 0..10} \cup {Float(11, 100)}
AlphaInputs == {0, Float(3, 10), Float(1, 2), HYBRID_ALPHA, FloatUnit}

\* A call of hybrid_score on arguments drawn from the inputs.
hybrid_score_call ==
    /\ ret.op = "call"
    /\ ret' = [op |-> "hybrid_score", semantic_score |-> ret.semantic_score,
               lexical_score |-> ret.lexical_score, alpha |-> ret.alpha,
               value |-> hybrid_score(ret.semantic_score, ret.lexical_score,
                                      ret.alpha)]
    /\ UNCHANGED <<episodes, chunks, next_id, faiss_file, emb_file,
                   _index, _chunk_map, hist, task>>

InitFuse ==
    /\ episodes = [id \in Episodes |-> EpisodeRow(id)]
    /\ chunks = [id \in {} |-> <<>>]
    /\ next_id = 1
    /\ faiss_file = NoFile
    /\ emb_file = NoFile
    /\ _index = None
    /\ _chunk_map = EmptyMap
    /\ ret \in {[op |-> "call", semantic_score |-> s, lexical_score |-> l,
                 alpha |-> a] :
                   s \in ScoreInputs, l \in ScoreInputs, a \in AlphaInputs}
    /\ hist = [paired |-> FALSE, fresh |-> TRUE]
    /\ task = Idle

NextFuse == hybrid_score_call

SpecFuse == InitFuse /\ [][NextFuse]_vars

FuseReturned == ret.op = "hybrid_score"

\* The arguments of Scenario C: hybrid_score(0.8, 0.2, alpha=0.7).
IsScenarioC ==
    /\ ret.semantic_score = Float(8, 10)
    /\ ret.lexical_score = Float(2, 10)
    /\ ret.alpha = Float(7, 10)

\* Two floats of [0, 1] no further apart than the scenario's tolerance,
\* which is 1e-6 for 53 significand bits: here three unit roundoffs.
CloseTo(x, y) ==
    LET tolerance == (3 * FloatUnit) \div Pow2(Precision)
    IN  x - y <= tolerance /\ y - x <= tolerance

\* C20: (as the specification states it) hybrid_score is the weighted mean
\* alpha * semantic + (1 - alpha) * lexical: with alpha = 1 it returns the
\* semantic score, with alpha = 0 the lexical score,
\* hybrid_score(0.8, 0.2, 0.7) = 0.62, and for alpha in [0, 1] the result
\* lies between the smaller and the larger of the two scores, hence in
\* [0, 1] when both are.
C20_FuseIsConvexCombination ==
    FuseReturned =>
        /\ ret.alpha = FloatUnit => ret.value = ret.semantic_score
        /\ ret.alpha = 0 => ret.value = ret.lexical_score
        /\ IsScenarioC => CloseTo(ret.value, Float(62, 100))
        /\ Min(ret.semantic_score, ret.lexical_score) <= ret.value
        /\ ret.value <= Max(ret.semantic_score, ret.lexical_score)
        /\ 0 <= ret.value /\ ret.value <= FloatUnit

\* C20, amended: the same, with the result between the smaller and the
\* larger score up to the rounding of the three operations that follow the
\* subtraction: within three unit roundoffs (2^-Precision each) of the
\* larger score, plus one quantum.  The result still lies in [0, 1].
C20_FuseIsConvexUpToRounding ==
    FuseReturned =>
        LET slack == (3 * Max(ret.semantic_score, ret.lexical_score))
                        \div Pow2(Precision) + 1
        IN  /\ ret.alpha = FloatUnit => ret.value = ret.semantic_score
            /\ ret.alpha = 0 => ret.value = ret.lexical_score
            /\ IsScenarioC => CloseTo(ret.value, Float(62, 100))
            /\ Min(ret.semantic_score, ret.lexical_score) - slack <= ret.value
            /\ ret.value <= Max(ret.semantic_score, ret.lexical_score) + slack
            /\ 0 <= ret.value /\ ret.value <= FloatUnit

C20_Witness ==
    /\ FuseReturned
    /\ IsScenarioC
    /\ CloseTo(ret.value, Float(62, 100))

----------------------------------------------------------------------------
(* Ranking over a stored collection *)

MaxHits == 3

GuidsStored == <<1, 2, 3, 4>>

\* The database after the four episodes of the feed have been stored, each
\* with the chunks chunk_episode_content cuts from it, in feed order.
StoredFeed ==
    [i \in DOMAIN GuidsStored |->
        [guid |-> GuidsStored[i],
         chunks |-> chunk_episode_content(i, EpisodeRow(GuidsStored[i]).title,
                                          EpisodeRow(GuidsStored[i]).description,
                                          EpisodeRow(GuidsStored[i]).transcript)]]

StoredEpisodes == [i \in DOMAIN GuidsStored |-> EpisodeRow(GuidsStored[i])]

\* Hits as semantic_search returns them: positions of the index (one past
\* the last stored chunk included), no position twice, each with one of
\* two similarities.
ScoreHitInputs ==
    {hits \in SeqsUpTo({<<p, s>> : p \in 0..Len(GuidsStored),
                                   s \in {Float(1, 2), FloatUnit}},
                       MaxHits) :
        \A i, j \in DOMAIN hits : i # j => hits[i][1] # hits[j][1]}

ScoreQueryInputs == {<<>>, <<"a", "b">>, <<"B">>}

\* The calls a client makes on the stored collection, one per behaviour,
\* with the index of the stored chunks loaded or not.
ScoreCalls ==
    {[op |-> "call", fn |-> "rank_results", query |-> q, hits |-> hits,
      top_k |-> k] :
        q \in ScoreQueryInputs, hits \in ScoreHitInputs, k \in 0..MaxTopK}
      \cup {[op |-> "call", fn |-> "lexical_search_episodes", query |-> q,
              top_k |-> k] : q \in ScoreQueryInputs, k \in 0..MaxTopK}

InitScore ==
    /\ episodes = StoredEpisodes
    /\ chunks = StoredChunksOf([table |-> [id \in {} |-> <<>>], next |-> 1,
                                all_chunks |-> <<>>],
                               StoredEpisodes, StoredFeed).table
    /\ next_id = Len(GuidsStored) + 1
    /\ faiss_file = NoFile
    /\ emb_file = NoFile
    /\ \E ready \in BOOLEAN :
          /\ _index = IF ready THEN IndexOf(GoodEmb(Len(GuidsStored)), "read")
                       ELSE None
          /\ _chunk_map = IF ready
                           THEN BuiltChunkMap(chunks, AllChunkIds(chunks, episodes))
                           ELSE EmptyMap
    /\ ret \in ScoreCalls
    /\ hist = [paired |-> FALSE, fresh |-> TRUE]
    /\ task = Idle

NextScore ==
    \/ /\ ret.op = "call"
       /\ ret.fn = "rank_results"
       /\ rank_results(ret.query, ret.hits, ret.top_k)
    \/ /\ ret.op = "call"
       /\ ret.fn = "lexical_search_episodes"
       /\ lexical_search_episodes(ret.query, ret.top_k)

SpecScore == InitScore /\ [][NextScore]_vars

RankReturned == ret.op = "rank_results"

\* The place the stable descending sort gives candidate j of the list c:
\* behind every candidate that scores more and every earlier candidate that
\* scores the same.
SortedPlace(c, j) ==
    1 + Cardinality({m \in DOMAIN c : c[m].score > c[j].score})
      + Cardinality({m \in 1..(j - 1) : c[m].score = c[j].score})

\* C17: rank_results returns its results in non-increasing order of fused
\* score, results with equal fused score in the order of their hits in the
\* input, and returns the first top_k entries of that order: nothing for
\* top_k = 0, every candidate (and no more) when top_k exceeds their number.
C17_SortedStableTruncated ==
    RankReturned =>
        /\ Len(ret.value) = Min(ret.top_k, Len(ret.ranked_results))
        /\ \A i \in 1..(Len(ret.value) - 1) :
              ret.value[i].score >= ret.value[i + 1].score
        /\ \A j \in DOMAIN ret.ranked_results :
              SortedPlace(ret.ranked_results, j) <= Len(ret.value) =>
                 ret.value[SortedPlace(ret.ranked_results, j)]
                    = ret.ranked_results[j]

C17_Witness ==
    /\ RankReturned
    /\ Len(ret.ranked_results) = 3
    /\ ret.top_k = 3
    /\ ret.ranked_results[1].score = ret.ranked_results[3].score
    /\ ret.ranked_results[1].score < ret.ranked_results[2].score
    /\ ret.value = <<ret.ranked_results[2], ret.ranked_results[1],
                     ret.ranked_results[3]>>
    /\ ret.ranked_results[1] # ret.ranked_results[3]

\* A hit is resolvable when its position has a chunk row, in the order
\* rank looks rows up, and the episode that row names is stored.
Resolvable(hit) ==
    /\ hit[1] < Cardinality(DOMAIN chunks)
    /\ chunks[ChunksById(DOMAIN chunks)[hit[1] + 1]].episode_id
          \in DOMAIN episodes

\* C18: (as the specification states it) rank_results drops exactly the
\* hits whose provenance or owning episode cannot be resolved, goes on with
\* the others and truncates only afterwards: it returns
\* min(top_k, number of resolvable hits) results, and no results, rather
\* than an error, for an empty or wholly unresolvable input.
C18_DropsExactlyUnresolvable ==
    RankReturned =>
        Len(ret.value)
           = Min(ret.top_k,
                 Cardinality({i \in DOMAIN ret.hits : Resolvable(ret.hits[i])}))

\* C19: every result of rank_results carries the similarity of one of the
\* resolved hits as semantic_score, the lexical score of the query against
\* the text fetched for that hit as lexical_score, and
\* alpha * semantic_score + (1 - alpha) * lexical_score as score; no result
\* of the call is a lexical-only one made some other way.  Every result of
\* lexical_search_episodes has semantic_score 0 and its lexical score as
\* score.
C19_ResultsAreFusedOrLexicalOnly ==
    /\ RankReturned =>
          \A i \in DOMAIN ret.value :
             /\ ret.value[i].score
                   = fadd(fmul(HYBRID_ALPHA, ret.value[i].semantic_score),
                          fmul(fsub(FloatUnit, HYBRID_ALPHA),
                               ret.value[i].lexical_score))
             /\ \E h \in DOMAIN ret.chunk_metadata :
                   /\ ret.value[i].semantic_score = ret.chunk_metadata[h][2]
                   /\ ret.value[i].episode_id = ret.chunk_metadata[h][3][1]
                   /\ ret.value[i].lexical_score
                         = lexical_score(ret.query,
                              _get_chunk_text(ret.chunk_metadata[h][3][1],
                                              ret.chunk_metadata[h][3][2],
                                              ret.chunk_metadata[h][3][3]))
    /\ ret.op = "lexical_search_episodes" =>
          \A i \in DOMAIN ret.value :
             /\ ret.value[i].semantic_score = 0
             /\ ret.value[i].score = ret.value[i].lexical_score

C19_Witness ==
    /\ RankReturned
    /\ Len(ret.value) >= 2
    /\ \E i \in DOMAIN ret.value :
          /\ ret.value[i].lexical_score > 0
          /\ ret.value[i].lexical_score < FloatUnit
          /\ ret.value[i].semantic_score < FloatUnit
          /\ ret.value[i].score # ret.value[i].lexical_score
          /\ ret.value[i].score # ret.value[i].semantic_score

----------------------------------------------------------------------------
(* Lexical-only search *)

LexicalReturned == ret.op = "lexical_search_episodes"

\* The score lexical_search_episodes gives a stored episode.
EpisodeScore(query, id) ==
    Max(lexical_score(query, episodes[id].title),
        lexical_score(query, episodes[id].description))

\* The returned list holds the top_k best of the episodes of candidates:
\* each at most once, every one scored max(title_score, desc_score) with
\* semantic_score 0, in non-increasing score order, none left out that
\* scores more than one returned.
IsTopKOf(candidates) ==
    /\ Len(ret.value) = Min(ret.top_k, Cardinality(candidates))
    /\ \A i \in DOMAIN ret.value :
          /\ ret.value[i].episode_id \in candidates
          /\ ret.value[i].score = EpisodeScore(ret.query, ret.value[i].episode_id)
          /\ ret.value[i].lexical_score = ret.value[i].score
          /\ ret.value[i].semantic_score = 0
    /\ \A i, j \in DOMAIN ret.value :
          i < j => /\ ret.value[i].episode_id # ret.value[j].episode_id
                   /\ ret.value[i].score >= ret.value[j].score
    /\ \A id \in candidates :
          (\A i \in DOMAIN ret.value : ret.value[i].episode_id # id)
             => \A i \in DOMAIN ret.value :
                   EpisodeScore(ret.query, id) <= ret.value[i].score

\* C21: (as the specification states it) lexical_search_episodes scores
\* each stored episode as max(title_score, desc_score), sets semantic_score
\* to 0 and score to that lexical score, and returns the top_k
\* highest-scoring of all stored episodes in non-increasing score order; it
\* leaves the index and the chunk map as they are.
C21_LexicalOnlyRanksAllEpisodes ==
    /\ [](LexicalReturned => IsTopKOf(DOMAIN episodes))
    /\ [][LexicalReturned' => UNCHANGED <<_index, _chunk_map>>]_vars

\* C21: (amended) the episodes scored and returned are those the database
\* search finds: the ones whose title or description holds the query as a
\* substring, as its LIKE compares; of these the top_k highest-scoring are
\* returned as stated, index loaded or not.
C21_LexicalOnlyRanksMatches ==
    /\ [](LexicalReturned =>
            \E ignore_case \in BOOLEAN :
               IsTopKOf({id \in DOMAIN episodes :
                           \/ Like(episodes[id].title, ret.query, ignore_case)
                           \/ Like(episodes[id].description, ret.query,
                                   ignore_case)}))
    /\ [][LexicalReturned' => UNCHANGED <<_index, _chunk_map>>]_vars

C21_Witness ==
    /\ LexicalReturned
    /\ _index # None
    /\ ret.query # <<>>
    /\ Len(ret.value) = ret.top_k
    /\ Len(ret.value) >= 1
    /\ ret.value[1].score = FloatUnit
    /\ \E id \in DOMAIN episodes :
          /\ Like(episodes[id].title, ret.query, TRUE)
          /\ \A i \in DOMAIN ret.value : ret.value[i].episode_id # id

----------------------------------------------------------------------------
(* The text functions called on their own *)

SnipLen == 30       \* the snippet_length of the calls
MaxWindows == 2     \* the texts reach up to MaxWindows strides past it
MaxWordLen == 2     \* the longest query and text given to lexical_score

\* A text of n filler characters with the letter a at position p and the
\* letter B at position q (a position of n: the letter is left out).
MarkedText(n, p, q) ==
    [i \in 1..n |-> IF i = p + 1 THEN "a" ELSE IF i = q + 1 THEN "B" ELSE "x"]

\* The texts given to the snippet functions: shorter than, as long as and
\* up to MaxWindows strides longer than snippet_length, ending on a stride
\* or one past it; the letters on every tenth position, on the last
\* position, or left out.
SnippetTexts ==
    {MarkedText(n, p, q) :
        <<n, p, q>> \in
           {t \in ({SnipLen - 1} \cup {SnipLen + 50 * w + d :
                                          w \in 0..MaxWindows, d \in 0..1})
                     \X (0..(SnipLen + 50 * MaxWindows + 1))
                     \X (0..(SnipLen + 50 * MaxWindows + 1)) :
               /\ t[2] <= t[1] /\ (t[2] % 10 = 0 \/ t[2] >= t[1] - 1)
               /\ t[3] <= t[1] /\ (t[3] % 10 = 0 \/ t[3] >= t[1] - 1)}}

SnippetQueries ==
    {<<>>, <<"a">>, <<"A">>, <<"b">>, <<"a", " ", "b">>,
     <<"a", " ", "a", " ", "b", " ", "x", "b">>}

\* A transcript longer than CHUNK_SIZE.
LongTranscript == Repeat(<<"w", "o", "r", "d", " ">>, (CHUNK_SIZE \div 5) + 60)

TextCalls ==
    {[op |-> "call", fn |-> fn, text |-> text, query |-> query,
      snippet_length |-> SnipLen] :
        fn \in {"_generate_snippet", "get_chunk_snippet"},
        text \in SnippetTexts, query \in SnippetQueries}
      \cup {[op |-> "call", fn |-> "chunk_episode_content", episode_id |-> id,
              title |-> title, description |-> description,
              transcript |-> transcript] :
                id \in 1..MaxId,
                title \in {<<>>, <<"A">>, <<" ">>},
                description \in {<<>>, <<"b", "a">>},
                transcript \in {<<>>, <<"a", "b">>, <<"a", "\n", "b", " ">>,
                                LongTranscript}}
      \cup {[op |-> "call", fn |-> "lexical_score", query |-> query,
              text |-> text] :
                query \in SeqsUpTo({"a", "b", "A", "B"}, MaxWordLen),
                text \in SeqsUpTo({"a", "b", "A", "B"}, MaxWordLen)}

InitText ==
    /\ episodes = [id \in {} |-> <<>>]
    /\ chunks = [id \in {} |-> <<>>]
    /\ next_id = 1
    /\ faiss_file = NoFile
    /\ emb_file = NoFile
    /\ _index = None
    /\ _chunk_map = EmptyMap
    /\ ret \in TextCalls
    /\ hist = [paired |-> FALSE, fresh |-> TRUE]
    /\ task = Idle

NextText ==
    /\ ret.op = "call"
    /\ \/ /\ ret.fn = "_generate_snippet"
          /\ ret' = [ret EXCEPT !.op = "_generate_snippet"]
                       @@ [value |-> _generate_snippet(ret.text, ret.query,
                                                       ret.snippet_length)]
       \/ /\ ret.fn = "get_chunk_snippet"
          /\ ret' = [ret EXCEPT !.op = "get_chunk_snippet"]
                       @@ [value |-> get_chunk_snippet(ret.text, ret.query,
                                                       ret.snippet_length)]
       \/ /\ ret.fn = "chunk_episode_content"
          /\ ret' = [ret EXCEPT !.op = "chunk_episode_content"]
                       @@ [value |-> chunk_episode_content(ret.episode_id,
                                        ret.title, ret.description,
                                        ret.transcript)]
       \/ /\ ret.fn = "lexical_score"
          /\ ret' = [ret EXCEPT !.op = "lexical_score"]
                       @@ [value |-> lexical_score(ret.query, ret.text)]
    /\ UNCHANGED <<task, episodes, chunks, next_id, faiss_file, emb_file,
                   _index, _chunk_map, hist>>

SpecText == InitText /\ [][NextText]_vars

SnippetReturned == ret.op \in {"_generate_snippet", "get_chunk_snippet"}

\* The number of distinct query terms the window of text that starts at i
\* holds, letter case set aside.
TermsInWindow(text, query, snippet_length, i) ==
    Cardinality({word \in Range(split(lower(query))) :
                    Contains(Slice(lower(text), i, i + snippet_length), word)})

\* The window starts 0, 50, 100, ... up to and including
\* len(text) - snippet_length.
WindowStarts(text, snippet_length) ==
    {i \in 0..(Len(text) - snippet_length) : i % 50 = 0}

\* The earliest of the window starts that holds the most distinct terms.
EarliestBestWindow(text, query, snippet_length) ==
    CHOOSE b \in WindowStarts(text, snippet_length) :
        \A i \in WindowStarts(text, snippet_length) :
           /\ TermsInWindow(text, query, snippet_length, i)
                 <= TermsInWindow(text, query, snippet_length, b)
           /\ i < b => TermsInWindow(text, query, snippet_length, i)
                          < TermsInWindow(text, query, snippet_length, b)

\* C22: (as the specification states it) on a text longer than
\* snippet_length the snippet functions score every window start 0, 50,
\* 100, ... up to and including len(text) - snippet_length by the number of
\* distinct query terms in the window, select the earliest window with the
\* highest score, and return a snippet that contains that whole window.
C22_SnippetHoldsEarliestBestWindow ==
    (SnippetReturned /\ Len(ret.text) > ret.snippet_length) =>
        LET b == EarliestBestWindow(ret.text, ret.query, ret.snippet_length)
        IN  Contains(ret.value, Slice(ret.text, b, b + ret.snippet_length))

\* C23: (as the specification states it) on a text longer than
\* snippet_length the snippet is the winning window [b, b + snippet_length)
\* widened by 20 characters on each side and clipped to the text,
\* text[max(0, b - 20) : min(len(text), b + snippet_length + 20)], with an
\* ellipsis in front exactly when it starts after position 0 and one behind
\* exactly when it ends before len(text).
C23_SnippetIsWindowWidenedBothSides ==
    (SnippetReturned /\ Len(ret.text) > ret.snippet_length) =>
        LET b == EarliestBestWindow(ret.text, ret.query, ret.snippet_length)
            from == Max(0, b - 20)
            to == Min(Len(ret.text), b + ret.snippet_length + 20)
        IN  ret.value = (IF from > 0 THEN Ellipsis ELSE <<>>)
                           \o Slice(ret.text, from, to)
                           \o (IF to < Len(ret.text) THEN Ellipsis ELSE <<>>)

\* C24: a text no longer than snippet_length is returned as it is, with no
\* ellipsis; the snippet of a longer text is at most 40 characters shorter
\* or longer than snippet_length, and at most snippet_length + 30
\* characters long.
C24_SnippetLengthIsBounded ==
    SnippetReturned =>
        IF Len(ret.text) <= ret.snippet_length
        THEN ret.value = ret.text
        ELSE /\ Len(ret.value) >= ret.snippet_length - 40
             /\ Len(ret.value) <= ret.snippet_length + 40
             /\ Len(ret.value) <= ret.snippet_length + 30

C24_Witness ==
    /\ ret.op = "get_chunk_snippet"
    /\ Len(ret.text) > ret.snippet_length
    /\ Len(ret.value) = ret.snippet_length + 26
    /\ SubSeq(ret.value, 1, 3) = Ellipsis
    /\ SubSeq(ret.value, Len(ret.value) - 2, Len(ret.value)) = Ellipsis
    /\ Contains(ret.value, <<"a">>)

ContentReturned == ret.op = "chunk_episode_content"

\* 'Label: value' for a field that is present, nothing for one that is
\* absent.
Labelled(label, value) == IF value # <<>> THEN label \o value ELSE <<>>

\* A blank line between two parts that are both there.
BlankLine(before, after) ==
    IF before # <<>> /\ after # <<>> THEN <<"\n", "\n">> ELSE <<>>

\* C25: chunk_episode_content builds the content from the fields that are
\* present, each as 'Label: value', Title, Description, Transcript in that
\* order with a blank line between them; it returns no chunks when all
\* three are absent, and otherwise the chunks to_chunks makes of that
\* content, each with the episode_id given and its text, start, end and idx
\* as to_chunks set them.
C25_ContentChunksAreToChunksOfLabelledFields ==
    ContentReturned =>
        LET t == Labelled(<<"T", "i", "t", "l", "e", ":", " ">>, ret.title)
            d == Labelled(<<"D", "e", "s", "c", "r", "i", "p", "t", "i", "o",
                            "n", ":", " ">>, ret.description)
            r == Labelled(<<"T", "r", "a", "n", "s", "c", "r", "i", "p", "t",
                            ":", " ">>, ret.transcript)
            content == t \o BlankLine(t, d \o r) \o d \o BlankLine(d, r) \o r
            raw_chunks == to_chunks(content, CHUNK_SIZE, CHUNK_OVERLAP)
        IN  IF content = <<>> THEN ret.value = <<>>
            ELSE /\ Len(ret.value) = Len(raw_chunks)
                 /\ \A i \in DOMAIN ret.value :
                       ret.value[i] = [episode_id |-> ret.episode_id,
                                       idx |-> raw_chunks[i].idx,
                                       text |-> raw_chunks[i].text,
                                       start |-> raw_chunks[i].start,
                                       end |-> raw_chunks[i].end]

C25_Witness ==
    /\ ContentReturned
    /\ ret.title # <<>> /\ ret.description # <<>> /\ ret.transcript # <<>>
    /\ ret.episode_id = 2
    /\ Len(ret.value) >= 2
    /\ ret.value[2].start > 0
    /\ ret.value[2].episode_id = 2

\* The text with the case of every letter changed.
SwapCase(text) ==
    [i \in 1..Len(text) |->
        IF text[i] = "a" THEN "A" ELSE IF text[i] = "A" THEN "a"
        ELSE IF text[i] = "b" THEN "B" ELSE IF text[i] = "B" THEN "b"
        ELSE text[i]]

\* C26: lexical_score(query, text) is 0 when the query or the text is
\* empty; otherwise it lies in [0, 1], is the same whatever the case of the
\* letters of query and text, and is 1.0 when the two are equal but for
\* case and when the query occurs in the text as a substring.
C26_LexicalScoreIgnoresCase ==
    ret.op = "lexical_score" =>
        /\ (ret.query = <<>> \/ ret.text = <<>>) => ret.value = 0
        /\ ret.value >= 0 /\ ret.value <= FloatUnit
        /\ ret.value = lexical_score(SwapCase(ret.query), ret.text)
        /\ ret.value = lexical_score(ret.query, SwapCase(ret.text))
        /\ (ret.query # <<>> /\ ret.text # <<>>) =>
              /\ SwapCase(ret.query) = ret.text => ret.value = FloatUnit
              /\ (\E i \in 0..(Len(ret.text) - Len(ret.query)) :
                     \A j \in 1..Len(ret.query) :
                        ret.text[i + j] \in {ret.query[j],
                                             SwapCase(ret.query)[j]})
                    => ret.value = FloatUnit

C26_Witness ==
    /\ ret.op = "lexical_score"
    /\ ret.query = <<"A", "b">>
    /\ ret.text = <<"a", "B">>
    /\ ret.value = FloatUnit

----------------------------------------------------------------------------
(* The text rank fetches for a stored chunk *)

\* C27: (as the specification states it) for a chunk that
\* chunk_episode_content produced and that is stored with its
\* (episode_id, start, end), the text rank_results fetches for that
\* provenance is the slice [start, end) of the content the chunk was cut
\* from, so that, trimmed, it is the chunk's text; the offsets are never
\* applied to another string and never give the whole of a string they
\* point beyond.
C27_FetchedTextIsTheChunk ==
    RankReturned =>
        \A h \in DOMAIN ret.chunk_metadata :
            LET row == chunks[ChunksById(DOMAIN chunks)[ret.chunk_metadata[h][1] + 1]]
            IN  strip(_get_chunk_text(row.episode_id, row.start, row.end))
                   = row.text

----------------------------------------------------------------------------
(* The vectors and the ids an ingestion run hands to build *)

----------------------------------------------------------------------------
(* What a successful load leaves *)

\* C29: (as the specification states it) whenever load_faiss_index returns
\* True, the call has rebuilt the chunk map from the sidecar on disk and
\* is_index_loaded() is true right afterwards; it never reports success
\* with the index paired with an empty chunk map or with the chunk map of
\* an earlier build.
C29_LoadSuccessMeansReady ==
    (ret.op = "load" /\ ret.value) =>
        /\ is_index_loaded
        /\ emb_file # NoFile
        /\ _chunk_map = BuiltChunkMap(chunks, emb_file.chunk_ids)

----------------------------------------------------------------------------
(* The chunks at the end of the text *)

\* s is the last Len(s) characters of t.
IsSuffixOf(s, t) ==
    /\ Len(s) <= Len(t)
    /\ s = SubSeq(t, Len(t) - Len(s) + 1, Len(t))

\* C30: for a text longer than chunk_size and 1 <= overlap < chunk_size
\* (the text being the one the loop works on, the argument trimmed),
\* to_chunks does not stop at the first window that reaches the end of the
\* text: from the first chunk that ends at len(text) on, every chunk ends
\* there and starts at max(previous start + 1, len(text) - overlap), the
\* last one at len(text) - 1; so at most overlap further chunks follow that
\* first one, each a suffix of the one before.
C30_TailChunksUntilTextEnd ==
    (/\ ChunksReturned
     /\ Len(strip(ret.text)) > ret.chunk_size
     /\ 1 <= ret.overlap /\ ret.overlap < ret.chunk_size) =>
        LET text_len == Len(strip(ret.text))
            at_end == {i \in DOMAIN ret.value : ret.value[i].end = text_len}
            first == CHOOSE i \in at_end : \A j \in at_end : i <= j
        IN  /\ at_end # {}
            /\ at_end = first..Len(ret.value)
            /\ ret.value[Len(ret.value)].start = text_len - 1
            /\ Len(ret.value) - first <= ret.overlap
            /\ \A i \in (first + 1)..Len(ret.value) :
                  /\ ret.value[i].start
                        = Max(ret.value[i - 1].start + 1, text_len - ret.overlap)
                  /\ IsSuffixOf(ret.value[i].text, ret.value[i - 1].text)

C30_Witness ==
    /\ ChunksReturned
    /\ Len(strip(ret.text)) > ret.chunk_size
    /\ ret.overlap >= 2 /\ ret.overlap < ret.chunk_size
    /\ \E first \in DOMAIN ret.value :
          /\ ret.value[first].end = Len(strip(ret.text))
          /\ first > 1 => ret.value[first - 1].end < Len(strip(ret.text))
          /\ Len(ret.value) - first = ret.overlap

====
